---- MODULE Spec2Model ----
(***************************************************************************)
(* Cross-tab session cache and authentication-continuity layer of          *)
(* aditi-daily-updates: tabSwitchUtil (src/unnamed/part_000), the          *)
(* AuthProvider with the multi-phase signOut (src/unnamed/part_001), the   *)
(* AuthProvider with the short signOut (src/src/lib/authContext.tsx) and   *)
(* the App shell (src/src/pages/_app.tsx).                                 *)
(*                                                                         *)
(* Strings the code inspects (storage keys, URLs) are sequences of atoms,  *)
(* cut so that every needle the code searches for is exactly one atom or a *)
(* run of atoms; startsWith and includes are then prefix and infix tests.  *)
(***************************************************************************)
EXTENDS Naturals, Integers, Sequences, FiniteSets, TLC

VARIABLES
  tabsOn,       \* the tabs of the origin that can be opened
  build,        \* which AuthProvider is compiled in: "purge" (part_001) or "lib" (authContext.tsx)
  envUrl,       \* process.env.NEXT_PUBLIC_SUPABASE_URL as a string ("" when unset)
  clockOn,      \* TRUE when timer delays are measured against now
  now,          \* Date.now(), in milliseconds
  ls,           \* localStorage of the origin: key -> value, shared by all tabs
  session,      \* the auth collaborator's session (NoSession or a user id)
  mounted,      \* per tab: the page is loaded and AuthProvider mounted
  user,         \* per tab: AuthProvider's user state
  isLoading,    \* per tab: AuthProvider's isLoading state
  vis,          \* per tab: document.visibilityState
  ss,           \* per tab: sessionStorage, key -> value
  bodyClass,    \* per tab: document.body.classList
  timers,       \* per tab: pending setTimeout callbacks
  pend,         \* per tab: promises awaited by async functions of the tab
  so,           \* per tab: position of a running signOut
  fetchChain,   \* per tab: wrappers around window.fetch, innermost first
  swListeners,  \* per tab: visibilitychange listeners added by applySwitchPreventionToFetch
  fetchOut,     \* the arguments of the last call that reached the original fetch
  toasts,       \* per tab: kinds of notification shown by signOut
  soDone,       \* a signOut has returned and nobody has signed in since
  shownAt,      \* per tab: when the tab last became visible again (-1: never)
  mountedAt,    \* per tab: when the page last loaded (-1: never)
  idSeq,        \* how many tab ids have been generated (the random suffix)
  evts,         \* number of external events so far
  last          \* the last operation and what it saw

vars == <<tabsOn, build, envUrl, clockOn, now, ls, session, mounted, user, isLoading, vis,
          ss, bodyClass, timers, pend, so, fetchChain, swListeners, fetchOut,
          toasts, soDone, shownAt, mountedAt, idSeq, evts, last>>

-----------------------------------------------------------------------------
(* Bounds of the model *)

\* external events (visibility changes, sign-ins, sign-outs, API calls) per run
\* of one tab, and per run of two tabs
MaxEvents == 4
MaxTabEvents == 2
MaxClockEvents == 3
\* wrappers installed around window.fetch in one page
MaxLayers == 2
\* last instant of the clock, in ticks of TickMs
MaxTicks == 12

Tabs == {1, 2}
Users == {"u1"}
Roles == {"user", "manager", "admin"}
NoUser == [id |-> "null", role |-> "null"]
NoSession == "null"

-----------------------------------------------------------------------------
(* Strings *)

StartsWith(s, p) == Len(p) <= Len(s) /\ SubSeq(s, 1, Len(p)) = p

Includes(s, p) ==
  \E i \in 0 .. Len(s) : i + Len(p) <= Len(s) /\ SubSeq(s, i + 1, i + Len(p)) = p

\* keys of tabSwitchUtil
TAB_STATE_KEY == <<"aditi", "_", "tab_", "state">>
RETURNING_FLAG == <<"returning_from_tab_switch">>
PREVENT_REFRESH == <<"prevent_auto_refresh">>
TAB_ACTIVE_CLASS == "tab-just-activated"
TAB_ID_KEY == <<"aditi", "_", "tab_id">>
AUTH_TOKEN_KEY == <<"aditi", "_", "supabase", "_", "auth">>
\* key of authContext
USER_CACHE_KEY == <<"aditi", "_", "user", "_", "cache">>
BYPASS_KEY == <<"bypass_team_check">>

\* keys other code of the origin may own
SB_KEY == <<"sb-", "proj-", "auth", "-", "token">>
PREFS_KEY == <<"user", "_prefs">>
THEME_KEY == <<"theme">>
OAUTH_KEY == <<"o", "auth", "_", "state">>

LKeys == {TAB_STATE_KEY, AUTH_TOKEN_KEY, USER_CACHE_KEY, BYPASS_KEY, SB_KEY,
          PREFS_KEY, THEME_KEY}
SKeys == {TAB_ID_KEY, RETURNING_FLAG, PREVENT_REFRESH, OAUTH_KEY}

-----------------------------------------------------------------------------
(* Storage *)

Has(store, k) == k \in DOMAIN store
RemoveItem(store, k) == [x \in DOMAIN store \ {k} |-> store[x]]
SetItem(store, k, v) == [x \in DOMAIN store \cup {k} |-> IF x = k THEN v ELSE store[x]]
RemoveAll(store, ks) == [x \in DOMAIN store \ ks |-> store[x]]
EmptyStore == [x \in {} |-> "x"]

\* JSON.parse of a stored user record: the record, or a SyntaxError
Corrupt == [id |-> "corrupt", role |-> "corrupt"]
Parses(v) == v # Corrupt

-----------------------------------------------------------------------------
(* Timer delays of the code, in milliseconds *)

RevalDelayMs == 500
FlagClearMs == 2500
PreventClearMs == 5000
SafetyMs == 3000
ReloadMs == 500
EmergencyReloadMs == 1000
LibReloadMs == 100

\* the clock advances in steps of the shortest delay the clocked runs use
TickMs == RevalDelayMs
MaxTime == MaxTicks * TickMs

\* setTimeout(cb, ms): when the callback is due
Delay(ms) == IF clockOn THEN now + ms ELSE 0
Due(tm) == tm.due <= now

Timer(kind, ms, cu) == [kind |-> kind, due |-> Delay(ms), cu |-> cu]

-----------------------------------------------------------------------------
(* tabSwitchUtil: tab identity, token, suppression flags, tab record *)

Route == "/page"
NoToken == "null"
Tokens == {"t1", "t2"}
TokenOf(u) == IF u = "u1" THEN "t1" ELSE "t2"

\* getTabId: sessionStorage after the call (the id is its TAB_ID_KEY entry);
\* r is the random suffix, which no two generated ids share
\* variant: every call generates an identifier
GetTabIdStoreAlwaysNew(s, r) == SetItem(s, TAB_ID_KEY, <<"tab", now, r>>)

GetTabIdStore(s, r) ==
  IF Has(s, TAB_ID_KEY) THEN s ELSE SetItem(s, TAB_ID_KEY, <<"tab", now, r>>)

\* the suffixes used up once sessionStorage s has been through getTabId
NextSeq(s) == IF Has(s, TAB_ID_KEY) THEN idSeq ELSE idSeq + 1

getTabId(s, r) == GetTabIdStore(s, r)[TAB_ID_KEY]

\* getAuthToken: access_token of the parsed session blob, null on any failure
getAuthToken(l) ==
  IF ~Has(l, AUTH_TOKEN_KEY) THEN NoToken
  ELSE IF l[AUTH_TOKEN_KEY] \in Tokens THEN l[AUTH_TOKEN_KEY]
  ELSE NoToken

isReturningFromTabSwitch(t) ==
  \/ Has(ss[t], RETURNING_FLAG)
  \/ Has(ss[t], PREVENT_REFRESH)
  \/ TAB_ACTIVE_CLASS \in bodyClass[t]
  \/ "dashboard-tab-active" \in bodyClass[t]

\* variant: the standard fields are spread last
saveTabStateStandardLast(l, s, additionalData, r) ==
  SetItem(l, TAB_STATE_KEY,
          [tabId |-> getTabId(s, r), lastActive |-> now,
           route |-> Route, authToken |-> getAuthToken(l)] @@ additionalData)

\* variant: the new fields are merged into the record already stored
saveTabStateMerging(l, s, additionalData, r) ==
  SetItem(l, TAB_STATE_KEY,
          (additionalData @@ [tabId |-> getTabId(s, r), lastActive |-> now,
                              route |-> Route, authToken |-> getAuthToken(l)])
            @@ (IF Has(l, TAB_STATE_KEY) THEN l[TAB_STATE_KEY] ELSE [x \in {} |-> "x"]))

\* saveTabState: localStorage after the call; additionalData is spread last
saveTabState(l, s, additionalData, r) ==
  SetItem(l, TAB_STATE_KEY,
          additionalData @@ [tabId |-> getTabId(s, r), lastActive |-> now,
                             route |-> Route, authToken |-> getAuthToken(l)])

\* restoreTabState: the parsed record, or null
NoRecord == [null |-> TRUE]
\* stored text that JSON.parse rejects, and a SyntaxError reaching the caller
CorruptRecord == [corrupt |-> TRUE]
Thrown == [thrown |-> TRUE]

\* variant: JSON.parse outside the try block
restoreTabStateNoCatch(l) ==
  IF ~Has(l, TAB_STATE_KEY) THEN NoRecord
  ELSE IF l[TAB_STATE_KEY] = CorruptRecord THEN Thrown
  ELSE l[TAB_STATE_KEY]

restoreTabState(l) ==
  IF ~Has(l, TAB_STATE_KEY) THEN NoRecord
  ELSE IF l[TAB_STATE_KEY] = CorruptRecord THEN NoRecord
  ELSE l[TAB_STATE_KEY]

-----------------------------------------------------------------------------
(* window.fetch and its wrappers *)

\* header values are sequences of atoms, so that combined values can be told apart
CallerCred == <<"Basic", "x">>
Bearer(token) == <<"Bearer", token>>
NoValue == <<>>

Lower(name) ==
  IF name = "Authorization" THEN "authorization"
  ELSE IF name = "X-Trace" THEN "x-trace" ELSE name

UndefHeaders == [kind |-> "undef", ent |-> <<>>]
Plain(ent) == [kind |-> "plain", ent |-> ent]
HeadersObj(ent) == [kind |-> "Headers", ent |-> ent]

Index(ent, name) ==
  IF \E i \in 1 .. Len(ent) : ent[i][1] = name
  THEN CHOOSE i \in 1 .. Len(ent) : ent[i][1] = name
  ELSE 0

\* Headers.prototype.append: names are case-insensitive, values combine
HeadersAppend(ent, name, vals) ==
  LET i == Index(ent, Lower(name))
  IN IF i = 0 THEN Append(ent, <<Lower(name), vals>>)
     ELSE [ent EXCEPT ![i] = <<Lower(name), ent[i][2] \o vals>>]

RECURSIVE FillHeaders(_, _)
FillHeaders(ent, rest) ==
  IF rest = <<>> THEN ent
  ELSE FillHeaders(HeadersAppend(ent, rest[1][1], rest[1][2]), Tail(rest))

\* new Headers(init): from undefined/{}, a plain object or another Headers
NewHeaders(h) == HeadersObj(FillHeaders(<<>>, h.ent))

HeadersHas(h, name) == Index(h.ent, Lower(name)) # 0
HeadersGet(h, name) ==
  IF HeadersHas(h, name) THEN h.ent[Index(h.ent, Lower(name))][2] ELSE NoValue
HeadersSet(h, name, vals) ==
  LET i == Index(h.ent, Lower(name))
  IN HeadersObj(IF i = 0 THEN Append(h.ent, <<Lower(name), vals>>)
                ELSE [h.ent EXCEPT ![i] = <<Lower(name), vals>>])

\* {...(headers || {}), Authorization: v}: own enumerable properties only, so a
\* Headers instance spreads to nothing; property names are case-sensitive
SpreadWithAuthorization(h, vals) ==
  LET own == IF h.kind = "plain" THEN h.ent ELSE <<>>
      i == Index(own, "Authorization")
  IN Plain(IF i = 0 THEN Append(own, <<"Authorization", vals>>)
           ELSE [own EXCEPT ![i] = <<"Authorization", vals>>])

\* URLs: the current origin, and the hosts a request may name
Scheme == "https://"
OriginHost == <<"app">>
Origin == <<Scheme>> \o OriginHost
TrustedHost == <<"supa">>
TrustedUrl == <<Scheme>> \o TrustedHost
Hosts == {OriginHost, <<"app", ".evil">>, <<"evil">>, TrustedHost}
Tails == {<<"/", "x">>, <<"/", "x", "?r=", Scheme, "supa">>}
Targets == [kind : {"path", "absolute", "scheme-relative"}, host : Hosts, tail : Tails]

\* the string of a request target
Href(u) ==
  IF u.kind = "path" THEN u.tail
  ELSE IF u.kind = "absolute" THEN <<Scheme>> \o u.host \o u.tail
  ELSE <<"/", "/">> \o u.host \o u.tail

\* the wrapper installed by applySwitchPreventionToFetch
SwitchLayer(args, token) ==
  IF args.hasInit /\ token # NoToken
  THEN [args EXCEPT !.headers = SpreadWithAuthorization(args.headers, Bearer(token))]
  ELSE args

\* ensureTokenInRequests taking only absolute URLs of the origin for same-origin
EnsureLayerOriginOnly(args, token) ==
  LET initHeaders == IF args.hasInit THEN args.headers ELSE UndefHeaders
      url == args.input
      isSameOrigin == StartsWith(url, Origin)
      isSupabaseCall == Includes(url, envUrl)
      headers == NewHeaders(initHeaders)
  IN IF (isSameOrigin \/ isSupabaseCall) /\ token # NoToken
     THEN [input |-> url, hasInit |-> TRUE,
           headers |-> IF ~HeadersHas(headers, "Authorization")
                          /\ ~HeadersHas(headers, "authorization")
                       THEN HeadersSet(headers, "Authorization", Bearer(token))
                       ELSE headers]
     ELSE [input |-> url, hasInit |-> TRUE, headers |-> initHeaders]

\* the wrapper installed by ensureTokenInRequests
EnsureLayer(args, token) ==
  LET initHeaders == IF args.hasInit THEN args.headers ELSE UndefHeaders
      url == args.input
      isSameOrigin == StartsWith(url, <<"/">>) \/ StartsWith(url, Origin)
      isSupabaseCall == Includes(url, envUrl)
      headers == NewHeaders(initHeaders)
  IN IF (isSameOrigin \/ isSupabaseCall) /\ token # NoToken
     THEN [input |-> url, hasInit |-> TRUE,
           headers |-> IF ~HeadersHas(headers, "Authorization")
                          /\ ~HeadersHas(headers, "authorization")
                       THEN HeadersSet(headers, "Authorization", Bearer(token))
                       ELSE headers]
     ELSE [input |-> url, hasInit |-> TRUE, headers |-> initHeaders]

\* variant: the switch wrapper answers a call without init itself
SwitchForwardDropsBare(args, token) ==
  IF args.hasInit THEN <<SwitchLayer(args, token)>> ELSE <<>>

\* the calls a wrapper makes to the fetch it wrapped, for one call it receives:
\* return originalFetch.apply(this, args) / originalFetch.call(this, input, updatedInit)
SwitchForward(args, token) == <<SwitchLayer(args, token)>>
EnsureForward(args, token) == <<EnsureLayer(args, token)>>

Forward(name, args, token) ==
  IF name = "ensure" THEN EnsureForward(args, token) ELSE SwitchForward(args, token)

RECURSIVE ForwardAll(_, _, _)
ForwardAll(name, calls, token) ==
  IF calls = <<>> THEN <<>>
  ELSE Forward(name, Head(calls), token) \o ForwardAll(name, Tail(calls), token)

\* the calls that reach the browser's own fetch when calls enter the chain
RECURSIVE Reaching(_, _, _)
Reaching(chain, calls, token) ==
  IF chain = <<>> THEN calls
  ELSE Reaching(SubSeq(chain, 1, Len(chain) - 1),
                ForwardAll(chain[Len(chain)], calls, token), token)

\* the Authorization header the original fetch sends for the arguments it got
SentAuthorization(args) ==
  HeadersGet(NewHeaders(IF args.hasInit THEN args.headers ELSE UndefHeaders),
             "Authorization")

-----------------------------------------------------------------------------
(* State after the browser has started and before any page of the origin loads *)

\* keys that other code of the origin left in localStorage
Leftover == [k \in {SB_KEY, PREFS_KEY, THEME_KEY, BYPASS_KEY} |-> "x"]

NoOp == [op |-> "init", tab |-> 0, arg |-> ""]

Op(op, t, arg) == [op |-> op, tab |-> t, arg |-> arg]

Idle == [pc |-> "idle"]

InitTabs ==
  /\ mounted = [t \in Tabs |-> FALSE]
  /\ user = [t \in Tabs |-> NoUser]
  /\ isLoading = [t \in Tabs |-> TRUE]
  /\ vis = [t \in Tabs |-> "visible"]
  /\ ss = [t \in Tabs |-> EmptyStore]
  /\ bodyClass = [t \in Tabs |-> {}]
  /\ timers = [t \in Tabs |-> {}]
  /\ pend = [t \in Tabs |-> {}]
  /\ so = [t \in Tabs |-> Idle]
  /\ fetchChain = [t \in Tabs |-> <<>>]
  /\ swListeners = [t \in Tabs |-> 0]
  /\ toasts = [t \in Tabs |-> {}]
  /\ fetchOut = [calls |-> 0]
  /\ soDone = FALSE
  /\ shownAt = [t \in Tabs |-> -1]
  /\ mountedAt = [t \in Tabs |-> -1]
  /\ idSeq = 0
  /\ evts = 0
  /\ last = NoOp
  /\ now = 0
  /\ session = NoSession

Init ==
  /\ InitTabs
  /\ tabsOn = {1}
  /\ build \in {"purge", "lib"}
  /\ envUrl = TrustedUrl
  /\ clockOn = FALSE
  /\ ls = Leftover

\* two tabs of the origin
InitTabsSpec ==
  /\ InitTabs
  /\ tabsOn = Tabs
  /\ build = "purge"
  /\ envUrl = TrustedUrl
  /\ clockOn = FALSE
  /\ ls = Leftover

\* the collaborator's session blob in localStorage: absent, text that does not
\* parse, an object without access_token, or one with a token
Blobs == {NoToken, "corrupt", "empty"} \cup Tokens

\* one tab whose pages call fetch; NEXT_PUBLIC_SUPABASE_URL may be unset
InitFetch ==
  /\ InitTabs
  /\ tabsOn = {1}
  /\ build = "purge"
  /\ envUrl \in {<<>>, TrustedUrl}
  /\ clockOn = FALSE
  /\ \E b \in Blobs :
       ls = IF b = NoToken THEN Leftover ELSE SetItem(Leftover, AUTH_TOKEN_KEY, b)

\* one tab with a running clock
InitClock ==
  /\ InitTabs
  /\ tabsOn = {1}
  /\ build = "purge"
  /\ envUrl = TrustedUrl
  /\ clockOn = TRUE
  /\ ls = Leftover

EventBound ==
  IF clockOn THEN MaxClockEvents
  ELSE IF tabsOn = Tabs THEN MaxTabEvents ELSE MaxEvents

cfgVars == <<tabsOn, build, envUrl, clockOn>>
fetchVars == <<fetchChain, swListeners, fetchOut>>

\* setState and per-tab updates
Set(f, t, v) == [f EXCEPT ![t] = v]

\* a state setter of AuthProvider: React drops the update once the component is
\* unmounted
SetState(f, t, v) == IF mounted[t] THEN Set(f, t, v) ELSE f

-----------------------------------------------------------------------------
(* AuthProvider: mount, visibility, revalidation *)

\* JSON.parse(cachedUser) under try/catch: the state after setUser, or unchanged
\* variant: the cached record is never read
FromCacheNever(l, current) == current

FromCache(l, current) ==
  IF Has(l, USER_CACHE_KEY) /\ Parses(l[USER_CACHE_KEY]) THEN l[USER_CACHE_KEY]
  ELSE current

GetSession(cu) == [op |-> "getSession", cu |-> cu, who |-> "null", showLoading |-> FALSE]
Update(u, showLoading) ==
  [op |-> "update", cu |-> NoUser, who |-> u, showLoading |-> showLoading]
SignedOutEvent == [op |-> "SIGNED_OUT", cu |-> NoUser, who |-> "null", showLoading |-> FALSE]

\* The page loads: App's effect installs the credential wrapper, AuthProvider's
\* first effect restores the cached user, starts a quiet session check (with the
\* user of the first render, null) and arms the safety timer.
Mount(t) ==
  /\ ~mounted[t]
  /\ mounted' = Set(mounted, t, TRUE)
  /\ user' = Set(user, t, FromCache(ls, NoUser))
  /\ isLoading' = Set(isLoading, t, TRUE)
  /\ pend' = Set(pend, t, pend[t] \cup {GetSession(NoUser)})
  /\ timers' = Set(timers, t, timers[t] \cup {Timer("safety", SafetyMs, NoUser)})
  /\ fetchChain' = Set(fetchChain, t, <<"ensure">>)
  /\ mountedAt' = Set(mountedAt, t, now)
  /\ last' = Op("mount", t, "")
  /\ UNCHANGED <<cfgVars, now, ls, session, vis, ss, bodyClass, so, swListeners,
                 fetchOut, toasts, soDone, evts, idSeq, shownAt>>

\* additionalData of the two saveTabState calls of handleVisibilityChange;
\* JSON.stringify drops userEmail when it is undefined
VisibleData(u) ==
  IF u = NoUser THEN [hasAuth |-> FALSE, authTimestamp |-> now]
  ELSE [hasAuth |-> TRUE, authTimestamp |-> now, userEmail |-> u.id]

HiddenData(u) == [hasAuth |-> TRUE, hiddenWithAuth |-> TRUE, userEmail |-> u.id]

\* localStorage after the capturing listener of applySwitchPreventionToFetch
SwitchListenerStore(t, l, s, data, r) ==
  IF swListeners[t] > 0 THEN saveTabState(l, s, data, r) ELSE l

\* variant: the session check is scheduled only for a tab with an identity
BecomeVisibleCheckIfUser(t, r) ==
  LET s1 == GetTabIdStore(ss[t], r)
      l1 == SwitchListenerStore(t, ls, ss[t], [lastVisible |-> now], r)
      l2 == saveTabState(l1, s1, VisibleData(user[t]), r)
  IN /\ vis' = Set(vis, t, "visible")
     /\ shownAt' = Set(shownAt, t, now)
     /\ ss' = Set(ss, t, s1)
     /\ idSeq' = NextSeq(ss[t])
     /\ ls' = l2
     /\ user' = Set(user, t, IF user[t] = NoUser THEN FromCache(l2, NoUser) ELSE user[t])
     /\ timers' = Set(timers, t,
          timers[t] \cup (IF user[t] # NoUser
                         THEN {Timer("reval", RevalDelayMs, user[t])} ELSE {})
                    \cup (IF swListeners[t] > 0
                          THEN {Timer("clearReturning", FlagClearMs, NoUser)} ELSE {}))
     /\ last' = Op("visible", t, "")

\* variant: the cached record is not read when the tab is shown
BecomeVisibleNoRestore(t, r) ==
  LET s1 == GetTabIdStore(ss[t], r)
      l1 == SwitchListenerStore(t, ls, ss[t], [lastVisible |-> now], r)
      l2 == saveTabState(l1, s1, VisibleData(user[t]), r)
  IN /\ vis' = Set(vis, t, "visible")
     /\ shownAt' = Set(shownAt, t, now)
     /\ ss' = Set(ss, t, s1)
     /\ idSeq' = NextSeq(ss[t])
     /\ ls' = l2
     /\ user' = user
     /\ timers' = Set(timers, t,
          timers[t] \cup {Timer("reval", RevalDelayMs, user[t])}
                    \cup (IF swListeners[t] > 0
                          THEN {Timer("clearReturning", FlagClearMs, NoUser)} ELSE {}))
     /\ last' = Op("visible", t, "")

\* what the code of tab t can read: the identity in memory, the two stores and
\* the classes of document.body
Page(t) == [user |-> user[t], ls |-> ls, ss |-> ss[t], body |-> bodyClass[t]]

\* isReturningFromTabSwitch on a page
Returning(p) ==
  \/ Has(p.ss, RETURNING_FLAG)
  \/ Has(p.ss, PREVENT_REFRESH)
  \/ TAB_ACTIVE_CLASS \in p.body
  \/ "dashboard-tab-active" \in p.body

\* the visible branch of the visibilitychange handler restores the identity
\* from the cache when there is none in memory
VisibleRestore(p) == IF p.user = NoUser THEN FromCache(p.ls, NoUser) ELSE p.user

\* visibilitychange to visible
BecomeVisible(t, r) ==
  LET s1 == GetTabIdStore(ss[t], r)
      l1 == SwitchListenerStore(t, ls, ss[t], [lastVisible |-> now], r)
      l2 == saveTabState(l1, s1, VisibleData(user[t]), r)
  IN /\ vis' = Set(vis, t, "visible")
     /\ shownAt' = Set(shownAt, t, now)
     /\ ss' = Set(ss, t, s1)
     /\ idSeq' = NextSeq(ss[t])
     /\ ls' = l2
     /\ user' = Set(user, t, VisibleRestore([Page(t) EXCEPT !.ls = l2, !.ss = s1]))
     /\ timers' = Set(timers, t,
          timers[t] \cup {Timer("reval", RevalDelayMs, user[t])}
                    \cup (IF swListeners[t] > 0
                          THEN {Timer("clearReturning", FlagClearMs, NoUser)} ELSE {}))
     /\ last' = Op("visible", t, "")

\* visibilitychange to hidden
BecomeHidden(t, r) ==
  LET touched == swListeners[t] > 0 \/ user[t] # NoUser
      l1 == SwitchListenerStore(t, ls, ss[t], [lastHidden |-> now], r)
      l2 == IF user[t] # NoUser
            THEN saveTabState(l1, GetTabIdStore(ss[t], r), HiddenData(user[t]), r)
            ELSE l1
  IN /\ vis' = Set(vis, t, "hidden")
     /\ ss' = Set(ss, t, IF touched THEN GetTabIdStore(ss[t], r) ELSE ss[t])
     /\ idSeq' = IF touched THEN NextSeq(ss[t]) ELSE idSeq
     /\ ls' = l2
     /\ last' = Op("hidden", t, "")
     /\ UNCHANGED <<user, timers, shownAt, mountedAt>>

VisibilityChange(t) ==
  /\ mounted[t]
  /\ evts < EventBound
  /\ evts' = evts + 1
  /\ IF vis[t] = "hidden" THEN BecomeVisible(t, idSeq) ELSE BecomeHidden(t, idSeq)
  /\ UNCHANGED <<cfgVars, now, session, mounted, isLoading, bodyClass, pend, so,
                 fetchVars, toasts, soDone, mountedAt>>

\* the 500 ms timer of the visible branch fires: checkSessionQuietly starts
FireReval(t) ==
  \E tm \in timers[t] :
    /\ tm.kind = "reval" /\ Due(tm)
    /\ timers' = Set(timers, t, timers[t] \ {tm})
    /\ pend' = Set(pend, t, pend[t] \cup {GetSession(tm.cu)})
    /\ last' = Op("fireReval", t, "")
    /\ UNCHANGED <<cfgVars, now, ls, session, mounted, user, isLoading, vis, ss,
                   bodyClass, so, fetchVars, toasts, soDone, evts, idSeq, shownAt, mountedAt>>

\* checkSessionQuietly clearing on "no session" without looking at the cache entry
CheckSessionQuietlyIgnoresCache(t, cu, outcome) ==
  CASE outcome = "error" ->
         /\ user' = Set(user, t, NoUser)
         /\ ls' = RemoveItem(ls, USER_CACHE_KEY)
         /\ pend' = Set(pend, t, pend[t] \ {GetSession(cu)})
    [] outcome = "throw" ->
         /\ pend' = Set(pend, t, pend[t] \ {GetSession(cu)})
         /\ UNCHANGED <<user, ls>>
    [] outcome = "session" ->
         /\ pend' = Set(pend, t, (pend[t] \ {GetSession(cu)}) \cup {Update(session, FALSE)})
         /\ UNCHANGED <<user, ls>>
    [] OTHER ->
         /\ pend' = Set(pend, t, pend[t] \ {GetSession(cu)})
         /\ IF cu # NoUser
            THEN /\ user' = Set(user, t, NoUser)
                 /\ ls' = RemoveItem(ls, USER_CACHE_KEY)
            ELSE UNCHANGED <<user, ls>>

\* checkSessionQuietly putting the closure's user back on "no session" and no
\* cache entry, where the code sets null
CheckSessionQuietlyKeepsUser(t, cu, outcome) ==
  CASE outcome = "error" ->
         /\ user' = Set(user, t, NoUser)
         /\ ls' = RemoveItem(ls, USER_CACHE_KEY)
         /\ pend' = Set(pend, t, pend[t] \ {GetSession(cu)})
    [] outcome = "throw" ->
         /\ pend' = Set(pend, t, pend[t] \ {GetSession(cu)})
         /\ UNCHANGED <<user, ls>>
    [] outcome = "session" ->
         /\ pend' = Set(pend, t, (pend[t] \ {GetSession(cu)}) \cup {Update(session, FALSE)})
         /\ UNCHANGED <<user, ls>>
    [] OTHER ->
         /\ pend' = Set(pend, t, pend[t] \ {GetSession(cu)})
         /\ IF cu # NoUser /\ ~Has(ls, USER_CACHE_KEY)
            THEN /\ user' = Set(user, t, cu)
                 /\ ls' = RemoveItem(ls, USER_CACHE_KEY)
            ELSE UNCHANGED <<user, ls>>

\* variant: the check is skipped while the tab is returning from a switch
QuietCheckResultUnlessReturning(p, cu, outcome) ==
  IF Returning(p) \/ outcome \in {"throw", "session"}
  THEN [user |-> p.user, ls |-> p.ls, update |-> ~Returning(p) /\ outcome = "session"]
  ELSE IF outcome = "error" \/ (cu # NoUser /\ ~Has(p.ls, USER_CACHE_KEY))
  THEN [user |-> NoUser, ls |-> RemoveItem(p.ls, USER_CACHE_KEY), update |-> FALSE]
  ELSE [user |-> p.user, ls |-> p.ls, update |-> FALSE]

\* the body of checkSessionQuietly once getSession has settled: the identity and
\* the localStorage it leaves, and whether it goes on to updateUserData
QuietCheckResult(p, cu, outcome) ==
  CASE outcome = "error" ->
         [user |-> NoUser, ls |-> RemoveItem(p.ls, USER_CACHE_KEY), update |-> FALSE]
    [] outcome = "throw" ->
         [user |-> p.user, ls |-> p.ls, update |-> FALSE]
    [] outcome = "session" ->
         [user |-> p.user, ls |-> p.ls, update |-> TRUE]
    [] OTHER ->
         IF cu # NoUser /\ ~Has(p.ls, USER_CACHE_KEY)
         THEN [user |-> NoUser, ls |-> RemoveItem(p.ls, USER_CACHE_KEY), update |-> FALSE]
         ELSE [user |-> p.user, ls |-> p.ls, update |-> FALSE]

\* checkSessionQuietly after supabase.auth.getSession() settles.  cu is the user
\* of the render whose closure runs.
CheckSessionQuietly(t, cu, outcome) ==
  LET res == QuietCheckResult(Page(t), cu, outcome)
  IN /\ user' = SetState(user, t, res.user)
     /\ ls' = res.ls
     /\ pend' = Set(pend, t, (pend[t] \ {GetSession(cu)})
                               \cup (IF res.update THEN {Update(session, FALSE)} ELSE {}))

\* what getSession can answer: the session if there is one, none otherwise, or a failure
SessionOutcomes == {"error", "throw"} \cup (IF session = NoSession THEN {"none"} ELSE {"session"})

GetSessionReturn(t) ==
  \E p \in pend[t] : \E outcome \in SessionOutcomes :
    /\ p.op = "getSession"
    /\ CheckSessionQuietly(t, p.cu, outcome)
    /\ last' = Op("getSession", t, outcome)
    /\ UNCHANGED <<cfgVars, now, session, mounted, isLoading, vis, ss, bodyClass,
                   timers, so, fetchVars, toasts, soDone, evts, idSeq, shownAt, mountedAt>>

\* variant: the resolved user is set in memory only
UpdateUserDataMemoryOnly(t, p, role) ==
  LET updatedUser == [id |-> p.who, role |-> role]
  IN /\ user' = Set(user, t, updatedUser)
     /\ ls' = ls
     /\ isLoading' = Set(isLoading, t, IF p.showLoading THEN FALSE ELSE isLoading[t])
     /\ pend' = Set(pend, t, pend[t] \ {p})

\* updateUserData after its role and team lookups: the resolved user is stored
\* (the session users of the model all have an email)
UpdateUserData(t, p, role) ==
  LET updatedUser == [id |-> p.who, role |-> role]
  IN /\ user' = SetState(user, t, updatedUser)
     /\ ls' = SetItem(ls, USER_CACHE_KEY, updatedUser)
     /\ isLoading' = SetState(isLoading, t, IF p.showLoading THEN FALSE ELSE isLoading[t])
     /\ pend' = Set(pend, t, pend[t] \ {p})

\* the role is what the aditi_admins and aditi_teams lookups give
UpdateDone(t) ==
  \E p \in pend[t] : \E role \in Roles :
    /\ p.op = "update"
    /\ UpdateUserData(t, p, role)
    /\ last' = Op("update", t, p.who)
    /\ UNCHANGED <<cfgVars, now, session, mounted, vis, ss, bodyClass, timers, so,
                   fetchVars, toasts, soDone, evts, idSeq, shownAt, mountedAt>>

\* variant: the safety timer fires and leaves the loading state shown
FireSafetyKeepsLoading(t) ==
  \E tm \in timers[t] :
    /\ tm.kind = "safety" /\ Due(tm)
    /\ timers' = Set(timers, t, timers[t] \ {tm})
    /\ isLoading' = isLoading
    /\ last' = Op("fireSafety", t, "")
    /\ UNCHANGED <<cfgVars, now, ls, session, mounted, user, vis, ss, bodyClass,
                   pend, so, fetchVars, toasts, soDone, evts, idSeq, shownAt, mountedAt>>

\* the safety timer of the first effect: its closure saw isLoading = true
FireSafety(t) ==
  \E tm \in timers[t] :
    /\ tm.kind = "safety" /\ Due(tm)
    /\ timers' = Set(timers, t, timers[t] \ {tm})
    /\ isLoading' = Set(isLoading, t, FALSE)
    /\ last' = Op("fireSafety", t, "")
    /\ UNCHANGED <<cfgVars, now, ls, session, mounted, user, vis, ss, bodyClass,
                   pend, so, fetchVars, toasts, soDone, evts, idSeq, shownAt, mountedAt>>

-----------------------------------------------------------------------------
(* The auth collaborator (supabase.auth) as this layer sees it *)

\* a sign-in stores the session blob under the collaborator's key
CollaboratorSignIn(l, u) == SetItem(l, AUTH_TOKEN_KEY, TokenOf(u))

\* a successful sign-out removes the blob
CollaboratorSignOut(l) == RemoveItem(l, AUTH_TOKEN_KEY)

\* onAuthStateChange, SIGNED_OUT: setUser(null) and the cache entry is removed
\* variant: the SIGNED_OUT handler leaves the cache entry
OnSignedOutKeepsCache(l) == l

OnSignedOut(l) == RemoveItem(l, USER_CACHE_KEY)

\* onAuthStateChange, SIGNED_IN: updateUserData(session.user) shows the loading
\* state and resolves the user
SignIn(t) ==
  \E u \in Users :
    /\ mounted[t]
    /\ evts < EventBound
    /\ evts' = evts + 1
    /\ session' = u
    /\ ls' = CollaboratorSignIn(ls, u)
    /\ isLoading' = Set(isLoading, t, TRUE)
    /\ pend' = Set(pend, t, pend[t] \cup {Update(u, TRUE)})
    /\ soDone' = FALSE
    /\ last' = Op("signIn", t, u)
    /\ UNCHANGED <<cfgVars, now, mounted, user, vis, ss, bodyClass, timers, so,
                   fetchVars, toasts, idSeq, shownAt, mountedAt>>

\* the SIGNED_OUT event reaches a tab other than the one that signed out
DeliverSignedOut(t) ==
  /\ SignedOutEvent \in pend[t]
  /\ pend' = Set(pend, t, pend[t] \ {SignedOutEvent})
  /\ user' = Set(user, t, NoUser)
  /\ ls' = OnSignedOut(ls)
  /\ last' = Op("SIGNED_OUT", t, "")
  /\ UNCHANGED <<cfgVars, now, session, mounted, isLoading, vis, ss, bodyClass,
                 timers, so, fetchVars, toasts, soDone, evts, idSeq, shownAt, mountedAt>>

\* await supabase.auth.signOut(...) settles in tab t: on success the session and
\* the blob are gone, tab t's SIGNED_OUT handler has run and the other tabs of
\* the origin are notified
RemoteStore(result, l) ==
  IF result = "ok" THEN OnSignedOut(CollaboratorSignOut(l)) ELSE l
RemoteSession(result) == IF result = "ok" THEN NoSession ELSE session
RemotePend(t, result) ==
  IF result = "ok"
  THEN [x \in Tabs |-> IF x # t /\ mounted[x] THEN pend[x] \cup {SignedOutEvent}
                       ELSE pend[x]]
  ELSE pend
Results == {"ok", "error", "throw"}

\* the session ends on the collaborator's side (expiry, revocation elsewhere)
SessionEnds ==
  /\ session # NoSession
  /\ evts < EventBound
  /\ evts' = evts + 1
  /\ session' = NoSession
  /\ last' = [NoOp EXCEPT !.op = "sessionEnds"]
  /\ UNCHANGED <<cfgVars, now, ls, mounted, user, isLoading, vis, ss, bodyClass,
                 timers, pend, so, fetchVars, toasts, soDone, shownAt, mountedAt, idSeq>>

-----------------------------------------------------------------------------
(* signOut of src/unnamed/part_001: the purge pipeline *)

ourSpecificKeys == {USER_CACHE_KEY, AUTH_TOKEN_KEY, TAB_STATE_KEY, BYPASS_KEY}
sessionKeys == {TAB_ID_KEY, RETURNING_FLAG, PREVENT_REFRESH}
criticalKeys == {USER_CACHE_KEY, AUTH_TOKEN_KEY}

LsPattern(key) ==
  \/ StartsWith(key, <<"sb-">>)
  \/ StartsWith(key, <<"supabase">>)
  \/ Includes(key, <<"auth">>)
  \/ Includes(key, <<"session">>)
  \/ Includes(key, <<"token">>)
  \/ Includes(key, <<"user">>)
  \/ Includes(key, <<"aditi">>)
  \/ Includes(key, <<"login">>)
  \/ Includes(key, <<"password">>)
  \/ Includes(key, <<"cache">>)
  \/ Includes(key, <<"state">>)

SsPattern(key) ==
  \/ StartsWith(key, <<"sb-">>)
  \/ StartsWith(key, <<"supabase">>)
  \/ Includes(key, <<"auth">>)
  \/ Includes(key, <<"session">>)
  \/ Includes(key, <<"token">>)
  \/ Includes(key, <<"user">>)
  \/ Includes(key, <<"aditi">>)
  \/ Includes(key, <<"login">>)
  \/ Includes(key, <<"cache">>)
  \/ Includes(key, <<"state">>)

EmergencyPattern(key) ==
  \/ Includes(key, <<"aditi">>)
  \/ Includes(key, <<"sb-">>)
  \/ Includes(key, <<"supabase">>)

\* STEP 1: the fixed keys, then every key of the snapshot that matches
Step1(l) ==
  LET l1 == RemoveAll(l, ourSpecificKeys)
  IN RemoveAll(l1, {k \in DOMAIN l1 : LsPattern(k)})

\* STEP 2: the same against sessionStorage
Step2(s) ==
  LET s1 == RemoveAll(s, sessionKeys)
  IN RemoveAll(s1, {k \in DOMAIN s1 : SsPattern(k)})

\* variant: step 8 also counts the sign-outs in a key of its own
Step8Counting(l) ==
  LET k == <<"logouts">>
  IN SetItem(RemoveAll(l, criticalKeys), k, IF Has(l, k) THEN l[k] + 1 ELSE 1)

\* STEP 8: the critical keys are removed if they are back
Step8(l) == RemoveAll(l, criticalKeys)

\* where a storage call of steps 1-2 may throw, and how far the catch block gets
FailPoints == {"none", "ls", "ss"}
EmergencyFails == {"none", "sweep", "clear"}

\* the catch block's stores: the minimal sweep, or both stores cleared when the
\* sweep throws, or nothing when clear() throws as well
EmergencyLs(l, ef) ==
  IF ef = "none" THEN RemoveAll(l, {k \in DOMAIN l : EmergencyPattern(k)})
  ELSE IF ef = "sweep" THEN EmptyStore ELSE l
EmergencySs(s, ef) == IF ef = "sweep" THEN EmptyStore ELSE s

\* the catch block and finally: signOut returns
Emergency(t, l, s, ef) ==
  /\ user' = Set(user, t, NoUser)
  /\ ls' = EmergencyLs(l, ef)
  /\ ss' = Set(ss, t, EmergencySs(s, ef))
  /\ toasts' = Set(toasts, t, toasts[t] \cup {"success"})
  /\ timers' = Set(timers, t, timers[t] \cup {Timer("reload", EmergencyReloadMs, NoUser)})
  /\ isLoading' = Set(isLoading, t, FALSE)
  /\ so' = Set(so, t, Idle)
  /\ soDone' = TRUE

\* identity and stores after each statement of the synchronous head of signOut:
\* setUser(null), step 1, step 2
PurgeHead(l, s, u) ==
  LET a == [user |-> NoUser, ls |-> l, ss |-> s]
      b == [a EXCEPT !.ls = Step1(l)]
      c == [b EXCEPT !.ss = Step2(s)]
  IN <<a, b, c>>

\* the synchronous head of signOut, up to the first await of step 3
SignOutStart(t) ==
  \E f \in FailPoints : \E ef \in EmergencyFails :
    /\ build = "purge"
    /\ mounted[t] /\ so[t].pc = "idle"
    /\ evts < EventBound
    /\ evts' = evts + 1
    /\ last' = Op("signOut", t, IF f = "none" THEN <<f>> ELSE <<f, ef>>)
    /\ CASE f = "ls" -> Emergency(t, ls, ss[t], ef)
         [] f = "ss" -> Emergency(t, Step1(ls), ss[t], ef)
         [] OTHER ->
              /\ isLoading' = Set(isLoading, t, TRUE)
              /\ user' = Set(user, t, PurgeHead(ls, ss[t], user[t])[3].user)
              /\ ls' = PurgeHead(ls, ss[t], user[t])[3].ls
              /\ ss' = Set(ss, t, PurgeHead(ls, ss[t], user[t])[3].ss)
              /\ so' = Set(so, t, [pc |-> "caches"])
              /\ UNCHANGED <<toasts, timers, soDone>>
    /\ UNCHANGED <<cfgVars, now, session, mounted, vis, bodyClass, pend, fetchVars, idSeq, shownAt, mountedAt>>

\* steps 3-5 (Cache Storage, IndexedDB) settle; the global sign-out is sent
SignOutCaches(t) ==
  /\ so[t].pc = "caches"
  /\ so' = Set(so, t, [pc |-> "global"])
  /\ last' = Op("soCaches", t, "")
  /\ UNCHANGED <<cfgVars, now, ls, session, mounted, user, isLoading, vis, ss,
                 bodyClass, timers, pend, fetchVars, toasts, soDone, evts, idSeq, shownAt, mountedAt>>

\* variant: the default-scope attempt is left out
NextScopeWithoutDefault(pc) ==
  IF pc = "global" THEN "local" ELSE "verify"

NextScope(pc) ==
  IF pc = "global" THEN "local" ELSE IF pc = "local" THEN "default" ELSE "verify"

\* STEP 6: one of the three sign-out attempts settles, whatever its result
SignOutRemote(t) ==
  \E result \in Results :
    /\ so[t].pc \in {"global", "local", "default"}
    /\ session' = RemoteSession(result)
    /\ ls' = RemoteStore(result, ls)
    /\ user' = Set(user, t, IF result = "ok" THEN NoUser ELSE user[t])
    /\ pend' = RemotePend(t, result)
    /\ so' = Set(so, t, [pc |-> NextScope(so[t].pc)])
    /\ last' = Op("soRemote", t, result)
    /\ UNCHANGED <<cfgVars, now, mounted, isLoading, vis, ss, bodyClass, timers,
                   fetchVars, toasts, soDone, evts, idSeq, shownAt, mountedAt>>

\* STEP 8 and the tail: the critical keys, the toast, then either the await of
\* router.push('/') or the reload timer and the return
Finish(t, l, home) ==
  /\ ls' = Step8(l)
  /\ toasts' = Set(toasts, t, toasts[t] \cup {"success"})
  /\ IF home
     THEN /\ timers' = Set(timers, t, timers[t] \cup {Timer("reload", ReloadMs, NoUser)})
          /\ isLoading' = Set(isLoading, t, FALSE)
          /\ so' = Set(so, t, Idle)
          /\ soDone' = TRUE
     ELSE /\ so' = Set(so, t, [pc |-> "push"])
          /\ UNCHANGED <<timers, isLoading, soDone>>

\* STEP 7: the session is queried once; a session that is still there gets one
\* more sign-out, anything else goes on to step 8
SignOutVerify(t) ==
  \E outcome \in SessionOutcomes : \E home \in BOOLEAN :
    /\ so[t].pc = "verify"
    /\ last' = Op("soVerify", t, outcome)
    /\ IF outcome = "session"
       THEN /\ so' = Set(so, t, [pc |-> "corrective"])
            /\ UNCHANGED <<ls, toasts, timers, isLoading, soDone>>
       ELSE Finish(t, ls, home)
    /\ UNCHANGED <<cfgVars, now, session, mounted, user, vis, ss, bodyClass, pend,
                   fetchVars, evts, idSeq, shownAt, mountedAt>>

SignOutCorrective(t) ==
  \E result \in Results : \E home \in BOOLEAN :
    /\ so[t].pc = "corrective"
    /\ session' = RemoteSession(result)
    /\ user' = Set(user, t, IF result = "ok" THEN NoUser ELSE user[t])
    /\ pend' = RemotePend(t, result)
    /\ Finish(t, RemoteStore(result, ls), home)
    /\ last' = Op("soCorrective", t, result)
    /\ UNCHANGED <<cfgVars, now, mounted, vis, ss, bodyClass, fetchVars, evts, idSeq, shownAt, mountedAt>>

\* await router.push('/') settles: the reload timer and the return, or the
\* catch block when the navigation rejects
SignOutPush(t) ==
  \E ok \in BOOLEAN : \E ef \in EmergencyFails :
    /\ so[t].pc = "push"
    /\ last' = Op("soPush", t, IF ok THEN <<"ok">> ELSE <<"reject", ef>>)
    /\ IF ok
       THEN /\ timers' = Set(timers, t, timers[t] \cup {Timer("reload", ReloadMs, NoUser)})
            /\ isLoading' = Set(isLoading, t, FALSE)
            /\ so' = Set(so, t, Idle)
            /\ soDone' = TRUE
            /\ UNCHANGED <<user, ls, ss, toasts>>
       ELSE Emergency(t, ls, ss[t], ef)
    /\ UNCHANGED <<cfgVars, now, session, mounted, vis, bodyClass, pend, fetchVars, evts, idSeq, shownAt, mountedAt>>

-----------------------------------------------------------------------------
(* signOut of src/src/lib/authContext.tsx *)

libLocalKeys == {USER_CACHE_KEY, AUTH_TOKEN_KEY, TAB_STATE_KEY}

\* the catch block and finally: an error toast, localStorage.clear(), no reload
LibCatch(t, l) ==
  /\ user' = Set(user, t, NoUser)
  /\ ls' = EmptyStore
  /\ toasts' = Set(toasts, t, toasts[t] \cup {"error"})
  /\ isLoading' = Set(isLoading, t, FALSE)
  /\ so' = Set(so, t, Idle)
  /\ soDone' = TRUE
  /\ UNCHANGED timers

\* the reload timer, finally, and the return
LibReturn(t) ==
  /\ timers' = Set(timers, t, timers[t] \cup {Timer("reload", LibReloadMs, NoUser)})
  /\ isLoading' = Set(isLoading, t, FALSE)
  /\ so' = Set(so, t, Idle)
  /\ soDone' = TRUE

\* identity and stores after each statement of the synchronous head: the
\* localStorage keys, the sessionStorage keys, setUser(null)
LibHead(l, s, u) ==
  LET a == [user |-> u, ls |-> RemoveAll(l, libLocalKeys), ss |-> s]
      b == [a EXCEPT !.ss = RemoveAll(s, sessionKeys)]
      c == [b EXCEPT !.user = NoUser]
  IN <<a, b, c>>

\* the synchronous head, up to await supabase.auth.signOut()
LibSignOutStart(t) ==
  \E f \in {"none", "ls"} :
    /\ build = "lib"
    /\ mounted[t] /\ so[t].pc = "idle"
    /\ evts < EventBound
    /\ evts' = evts + 1
    /\ last' = Op("signOut", t, <<f>>)
    /\ IF f = "ls"
       THEN LibCatch(t, ls) /\ UNCHANGED ss
       ELSE /\ isLoading' = Set(isLoading, t, TRUE)
            /\ ls' = LibHead(ls, ss[t], user[t])[3].ls
            /\ ss' = Set(ss, t, LibHead(ls, ss[t], user[t])[3].ss)
            /\ user' = Set(user, t, LibHead(ls, ss[t], user[t])[3].user)
            /\ so' = Set(so, t, [pc |-> "libRemote"])
            /\ UNCHANGED <<toasts, timers, soDone>>
    /\ UNCHANGED <<cfgVars, now, session, mounted, vis, bodyClass, pend, fetchVars, idSeq, shownAt, mountedAt>>

\* the single sign-out settles: a toast by its result, then router.push or the return
LibSignOutRemote(t) ==
  \E result \in Results : \E home \in BOOLEAN :
    /\ so[t].pc = "libRemote"
    /\ last' = Op("soRemote", t, result)
    /\ IF result = "throw"
       THEN /\ LibCatch(t, ls)
            /\ UNCHANGED <<session, pend>>
       ELSE /\ session' = RemoteSession(result)
            /\ ls' = RemoteStore(result, ls)
            /\ user' = Set(user, t, IF result = "ok" THEN NoUser ELSE user[t])
            /\ pend' = RemotePend(t, result)
            /\ toasts' = Set(toasts, t,
                 toasts[t] \cup {IF result = "ok" THEN "success" ELSE "error"})
            /\ IF home THEN LibReturn(t)
               ELSE /\ so' = Set(so, t, [pc |-> "libPush"])
                    /\ UNCHANGED <<timers, isLoading, soDone>>
    /\ UNCHANGED <<cfgVars, now, mounted, vis, ss, bodyClass, fetchVars, evts, idSeq, shownAt, mountedAt>>

LibSignOutPush(t) ==
  \E ok \in BOOLEAN :
    /\ so[t].pc = "libPush"
    /\ last' = Op("soPush", t, IF ok THEN <<"ok">> ELSE <<"reject">>)
    /\ IF ok THEN LibReturn(t) /\ UNCHANGED <<user, ls, toasts>>
       ELSE LibCatch(t, ls)
    /\ UNCHANGED <<cfgVars, now, session, mounted, vis, ss, bodyClass, pend,
                   fetchVars, evts, idSeq, shownAt, mountedAt>>

-----------------------------------------------------------------------------
(* Timers of the page *)

\* window.location.replace('/') or reload(): the page, its timers, its promises
\* and its wrappers are gone; sessionStorage and localStorage stay
FireReload(t) ==
  \E tm \in timers[t] :
    /\ tm.kind = "reload" /\ Due(tm)
    /\ mounted' = Set(mounted, t, FALSE)
    /\ user' = Set(user, t, NoUser)
    /\ isLoading' = Set(isLoading, t, TRUE)
    /\ timers' = Set(timers, t, {})
    /\ pend' = Set(pend, t, {})
    /\ so' = Set(so, t, Idle)
    /\ fetchChain' = Set(fetchChain, t, <<>>)
    /\ swListeners' = Set(swListeners, t, 0)
    /\ bodyClass' = Set(bodyClass, t, {})
    /\ toasts' = Set(toasts, t, {})
    /\ vis' = Set(vis, t, "visible")
    /\ shownAt' = Set(shownAt, t, -1)
    /\ mountedAt' = Set(mountedAt, t, -1)
    /\ last' = Op("reload", t, "")
    /\ UNCHANGED <<cfgVars, now, ls, session, ss, fetchOut, soDone, evts, idSeq>>

\* the 2500 ms timer of applySwitchPreventionToFetch's listener
FireClearReturning(t) ==
  \E tm \in timers[t] :
    /\ tm.kind = "clearReturning" /\ Due(tm)
    /\ timers' = Set(timers, t, timers[t] \ {tm})
    /\ ss' = Set(ss, t, RemoveItem(ss[t], RETURNING_FLAG))
    /\ bodyClass' = Set(bodyClass, t, bodyClass[t] \ {TAB_ACTIVE_CLASS})
    /\ last' = Op("clearReturning", t, "")
    /\ UNCHANGED <<cfgVars, now, ls, session, mounted, user, isLoading, vis, pend,
                   so, fetchVars, toasts, soDone, evts, idSeq, shownAt, mountedAt>>

\* the 5000 ms timer of preventNextTabSwitchRefresh
FireClearPrevent(t) ==
  \E tm \in timers[t] :
    /\ tm.kind = "clearPrevent" /\ Due(tm)
    /\ timers' = Set(timers, t, timers[t] \ {tm})
    /\ ss' = Set(ss, t, RemoveItem(ss[t], PREVENT_REFRESH))
    /\ last' = Op("clearPrevent", t, "")
    /\ UNCHANGED <<cfgVars, now, ls, session, mounted, user, isLoading, vis,
                   bodyClass, pend, so, fetchVars, toasts, soDone, evts, idSeq, shownAt, mountedAt>>

\* time passes when no callback is due
Tick ==
  /\ clockOn
  /\ now < MaxTime
  /\ \A t \in Tabs : \A tm \in timers[t] : ~Due(tm)
  /\ now' = now + TickMs
  /\ last' = [NoOp EXCEPT !.op = "tick"]
  /\ UNCHANGED <<cfgVars, ls, session, mounted, user, isLoading, vis, ss, bodyClass,
                 timers, pend, so, fetchVars, toasts, soDone, evts, idSeq, shownAt, mountedAt>>

-----------------------------------------------------------------------------
(* Calls of the exported utilities by the pages *)

preventNextTabSwitchRefresh(t) ==
  LET r == idSeq IN
    /\ mounted[t]
    /\ evts < EventBound
    /\ evts' = evts + 1
    /\ ss' = Set(ss, t, GetTabIdStore(SetItem(ss[t], PREVENT_REFRESH, now), r))
    /\ ls' = SetItem(ls, TAB_STATE_KEY,
                     [tabId |-> getTabId(ss[t], r), lastActive |-> now, route |-> Route])
    /\ idSeq' = NextSeq(ss[t])
    /\ timers' = Set(timers, t, timers[t] \cup {Timer("clearPrevent", PreventClearMs, NoUser)})
    /\ last' = Op("prevent", t, "")
    /\ UNCHANGED <<cfgVars, now, session, mounted, user, isLoading, vis, bodyClass,
                   pend, so, fetchVars, toasts, soDone, shownAt, mountedAt>>

applySwitchPreventionToFetch(t) ==
  /\ mounted[t]
  /\ Len(fetchChain[t]) < MaxLayers
  /\ fetchChain' = Set(fetchChain, t, Append(fetchChain[t], "switch"))
  /\ swListeners' = Set(swListeners, t, swListeners[t] + 1)
  /\ last' = Op("applySwitch", t, "")
  /\ UNCHANGED <<cfgVars, now, ls, session, mounted, user, isLoading, vis, ss,
                 bodyClass, timers, pend, so, fetchOut, toasts, soDone, evts, idSeq, shownAt, mountedAt>>

ensureTokenInRequests(t) ==
  /\ mounted[t]
  /\ Len(fetchChain[t]) < MaxLayers
  /\ fetchChain' = Set(fetchChain, t, Append(fetchChain[t], "ensure"))
  /\ last' = Op("ensureToken", t, "")
  /\ UNCHANGED <<cfgVars, now, ls, session, mounted, user, isLoading, vis, ss,
                 bodyClass, timers, pend, so, swListeners, fetchOut, toasts,
                 soDone, evts, idSeq, shownAt, mountedAt>>

\* init.headers as callers pass it
CallerHeaders ==
  {UndefHeaders,
   Plain(<<>>),
   Plain(<< <<"X-Trace", <<"1">> >> >>),
   Plain(<< <<"Authorization", CallerCred>> >>),
   Plain(<< <<"authorization", CallerCred>> >>),
   Plain(<< <<"X-Trace", <<"1">> >>, <<"Authorization", CallerCred>> >>),
   HeadersObj(<< <<"authorization", CallerCred>> >>),
   HeadersObj(<< <<"x-trace", <<"1">> >> >>)}

\* the calls that reach the browser's fetch when the page calls window.fetch
Intercepted(p, chain, args) == Reaching(chain, <<args>>, getAuthToken(p.ls))

\* window.fetch(input) or window.fetch(input, init)
Fetch(t) ==
  \E target \in Targets : \E hasInit \in BOOLEAN : \E h \in CallerHeaders :
    /\ mounted[t]
    /\ hasInit \/ h = UndefHeaders
    /\ LET args == [input |-> Href(target), hasInit |-> hasInit, headers |-> h]
       IN \E out \in {Intercepted(Page(t), fetchChain[t], args)} :
            fetchOut' = [calls |-> Len(out), tab |-> t, target |-> target, sent |-> args,
                         got |-> IF out = <<>> THEN args ELSE out[1],
                         token |-> getAuthToken(ls)]
    /\ last' = Op("fetch", t, "")
    /\ UNCHANGED <<cfgVars, now, ls, session, mounted, user, isLoading, vis, ss,
                   bodyClass, timers, pend, so, fetchChain, swListeners, toasts,
                   soDone, evts, idSeq, shownAt, mountedAt>>

-----------------------------------------------------------------------------
(* The tabs of one origin *)

\* what one tab does, whichever AuthProvider is compiled in
TabStep(t) ==
  \/ Mount(t)
  \/ VisibilityChange(t)
  \/ FireReval(t)
  \/ GetSessionReturn(t)
  \/ UpdateDone(t)
  \/ FireSafety(t)
  \/ SignIn(t)
  \/ FireReload(t)

PurgeStep(t) ==
  \/ SignOutStart(t)
  \/ SignOutCaches(t)
  \/ SignOutRemote(t)
  \/ SignOutVerify(t)
  \/ SignOutCorrective(t)
  \/ SignOutPush(t)

LibStep(t) ==
  \/ LibSignOutStart(t)
  \/ LibSignOutRemote(t)
  \/ LibSignOutPush(t)

\* one tab, either AuthProvider
Next ==
  \/ \E t \in tabsOn : TabStep(t) \/ PurgeStep(t) \/ LibStep(t)
  \/ SessionEnds

Spec == Init /\ [][Next]_vars

\* two tabs sharing localStorage and the collaborator's session
NextTabs ==
  \/ \E t \in tabsOn : TabStep(t) \/ PurgeStep(t) \/ DeliverSignedOut(t)
  \/ SessionEnds

SpecTabs == InitTabsSpec /\ [][NextTabs]_vars

\* the pages of one tab install the interceptors and call fetch
NextFetch ==
  \E t \in tabsOn :
    \/ Mount(t)
    \/ ensureTokenInRequests(t)
    \/ applySwitchPreventionToFetch(t)
    \/ Fetch(t)

SpecFetch == InitFetch /\ [][NextFetch]_vars

\* one tab, its timers and the clock
NextClock ==
  \/ \E t \in tabsOn :
       \/ Mount(t)
       \/ VisibilityChange(t)
       \/ preventNextTabSwitchRefresh(t)
       \/ applySwitchPreventionToFetch(t)
       \/ FireReval(t)
       \/ GetSessionReturn(t)
       \/ FireSafety(t)
       \/ FireClearReturning(t)
       \/ FireClearPrevent(t)
  \/ Tick

SpecClock == InitClock /\ [][NextClock]_vars

-----------------------------------------------------------------------------
(* Credential injection: what the original fetch receives *)

\* the host a request goes to, and whether that is the page's own origin or the
\* configured trusted host
TargetHost(u) == IF u.kind = "path" THEN OriginHost ELSE u.host
SameOriginTarget(u) == TargetHost(u) = OriginHost
TrustedTarget(u) == envUrl # <<>> /\ u.kind # "path" /\ u.host = TrustedHost

\* C8: a request whose caller set an Authorization header reaches the original
\* fetch with that header unchanged, whichever interceptors are installed
C8_CallerAuthorizationKept ==
  fetchOut.calls = 1 =>
    (SentAuthorization(fetchOut.sent) # NoValue =>
       SentAuthorization(fetchOut.got) = SentAuthorization(fetchOut.sent))

\* C9: a request to another origin that is not the configured trusted host gets
\* no Authorization header from the interceptors, also when a token is cached
\* and when no trusted host is configured
C9_NoTokenToOtherOrigins ==
  fetchOut.calls = 1 =>
    (/\ ~SameOriginTarget(fetchOut.target)
     /\ ~TrustedTarget(fetchOut.target)
     /\ SentAuthorization(fetchOut.sent) = NoValue
     => SentAuthorization(fetchOut.got) = NoValue)

-----------------------------------------------------------------------------
(* Refresh suppression around a return to the tab *)

\* the suppression window has elapsed since tab t last became visible again
WindowElapsed(t) == shownAt[t] >= 0 /\ now > shownAt[t] + FlagClearMs

\* C6: once the suppression window (2.5 s) has elapsed after a tab became
\* visible again, neither returning_from_tab_switch nor a prevent_auto_refresh
\* set before that moment is left in its sessionStorage
C6_FlagsGoneAfterWindow ==
  \A t \in tabsOn :
    WindowElapsed(t) =>
      /\ ~Has(ss[t], RETURNING_FLAG)
      /\ Has(ss[t], PREVENT_REFRESH) => ss[t][PREVENT_REFRESH] >= shownAt[t]

\* C7: right after a tab became visible again isReturningFromTabSwitch() is
\* true, and it is false once the suppression window has elapsed
C7_SuppressedOnReturn ==
  /\ last.op = "visible" => isReturningFromTabSwitch(last.tab)
  /\ \A t \in tabsOn :
       (WindowElapsed(t) /\ ~Has(ss[t], PREVENT_REFRESH)) => ~isReturningFromTabSwitch(t)

-----------------------------------------------------------------------------
(* Sign-out *)

\* the credential vocabulary of the purge
CredentialKey(k) ==
  \/ StartsWith(k, <<"sb-">>)
  \/ StartsWith(k, <<"supabase">>)
  \/ \E w \in {"auth", "session", "token", "user", "aditi", "login", "cache", "state"} :
       Includes(k, <<w>>)

\* the step just taken made signOut return in tab last.tab
SignOutReturned ==
  /\ last.op \in {"signOut", "soRemote", "soVerify", "soCorrective", "soPush"}
  /\ so[last.tab].pc = "idle"

\* signOut returned through its catch block and every storage call in it threw
StorageDead ==
  /\ last.op \in {"signOut", "soPush"}
  /\ Len(last.arg) = 2
  /\ last.arg[2] = "clear"

\* C1: when signOut returns, through the normal pipeline or the emergency
\* fallback, no key of the credential vocabulary is in localStorage or in the
\* tab's sessionStorage and getAuthToken() is null (a fallback in which every
\* storage call throws is left aside: nothing can be removed there)
C1_NoCredentialKeyAfterSignOut ==
  (SignOutReturned /\ ~StorageDead) =>
    /\ \A k \in DOMAIN ls : ~CredentialKey(k)
    /\ \A k \in DOMAIN ss[last.tab] : ~CredentialKey(k)
    /\ getAuthToken(ls) = NoToken

\* C2: once signOut has returned (or the page has reloaded) and nobody has
\* signed in since, no tab of the origin has an in-memory identity.  Tabs that
\* have not yet handled the SIGNED_OUT event or are about to reload, and
\* sign-outs the collaborator refused (the session is still valid), are left
\* aside.
ReloadPending(t) == \E tm \in timers[t] : tm.kind = "reload"

C2_NoIdentityAfterSignOut ==
  (/\ soDone
   /\ session = NoSession
   /\ \A t \in tabsOn : SignedOutEvent \notin pend[t] /\ so[t].pc = "idle")
  => \A t \in tabsOn : ReloadPending(t) \/ user[t] = NoUser

-----------------------------------------------------------------------------
(* Revalidation outcomes *)

\* the step leaves UserCacheRecord as it was
SameCache ==
  /\ Has(ls', USER_CACHE_KEY) = Has(ls, USER_CACHE_KEY)
  /\ Has(ls, USER_CACHE_KEY) => ls'[USER_CACHE_KEY] = ls[USER_CACHE_KEY]

\* the step is a revalidation settling with one of these outcomes
Revalidated(outcomes) == last'.op = "getSession" /\ last'.arg \in outcomes

\* C3: a revalidation that fails (getSession returns an error, or throws)
\* changes neither the in-memory identity nor UserCacheRecord
C3_FailedRevalidationChangesNothing ==
  [][Revalidated({"error", "throw"}) => (user' = user /\ SameCache)]_vars

\* C4: a revalidation that reports no session (and no error) changes the
\* identity or UserCacheRecord only if no UserCacheRecord exists; with a record
\* and the tab not visible both stay as they were
C4_NoSessionKeepsCachedIdentity ==
  [][Revalidated({"none"}) =>
       /\ (user' # user \/ ~SameCache) => ~Has(ls, USER_CACHE_KEY)
       /\ (Has(ls, USER_CACHE_KEY) /\ vis[last'.tab] # "visible")
            => (user' = user /\ SameCache)]_vars

\* a hidden tab with identity and record has had "no session" reported
C4_Witness ==
  /\ last.op = "getSession" /\ last.arg = "none"
  /\ vis[last.tab] = "hidden"
  /\ user[last.tab] # NoUser
  /\ Has(ls, USER_CACHE_KEY)

\* C5: while there is no UserCacheRecord and the collaborator has no session,
\* a tab without identity stays without one and no record is created, whatever
\* step comes next (initial load, visibility event, timer, revalidation
\* settling); only an updateUserData already in flight is excepted
C5_NoIdentityWithoutRecordOrSession ==
  [][\A t \in tabsOn :
       (/\ ~Has(ls, USER_CACHE_KEY)
        /\ session = NoSession /\ session' = NoSession
        /\ user[t] = NoUser
        /\ last'.op # "update")
       => (user'[t] = NoUser /\ ~Has(ls', USER_CACHE_KEY))]_vars

\* after a return to the tab, "no session" was reported with neither record
\* nor identity
C5_Witness ==
  /\ last.op = "getSession" /\ last.arg = "none"
  /\ shownAt[last.tab] >= 0
  /\ user[last.tab] = NoUser
  /\ ~Has(ls, USER_CACHE_KEY)

-----------------------------------------------------------------------------
(* Installing the interceptor *)

\* how many wrappers of ensureTokenInRequests are around window.fetch in tab t
EnsureLayers(t) ==
  Cardinality({i \in DOMAIN fetchChain[t] : fetchChain[t][i] = "ensure"})

\* C11: ensureTokenInRequests is idempotent: after any number of calls
\* window.fetch is wrapped by exactly one of its interceptor layers
C11_OneInterceptorLayer ==
  \A t \in tabsOn : mounted[t] => EnsureLayers(t) = 1


-----------------------------------------------------------------------------
(* Pages calling the tab utilities *)

\* the additionalData a page passes to saveTabState: a list of fields, each with
\* a value or undefined; one names a standard field, tabId of another tab
Field(k, d, v) == [key |-> k, def |-> d, val |-> v]
OtherTabId == <<"tab", 0, 99>>
ExtraInputs ==
  { <<>>,
    <<Field("scroll", TRUE, "120")>>,
    <<Field("scroll", TRUE, "120"), Field("userEmail", FALSE, "")>>,
    <<Field("tabId", TRUE, OtherTabId)>> }

\* JSON.stringify keeps the fields whose value is not undefined
Stringify(extra) ==
  LET kept == {i \in DOMAIN extra : extra[i].def}
      keys == {extra[i].key : i \in kept}
  IN [k \in keys |-> extra[CHOOSE i \in kept : extra[i].key = k].val]

\* a page calls saveTabState(extra)
SaveTabStateCall(t) ==
  \E extra \in ExtraInputs :
    LET r == idSeq IN
      /\ mounted[t]
      /\ evts < EventBound
      /\ evts' = evts + 1
      /\ ls' = saveTabState(ls, ss[t], Stringify(extra), r)
      /\ ss' = Set(ss, t, GetTabIdStore(ss[t], r))
      /\ idSeq' = NextSeq(ss[t])
      /\ last' = Op("saveTabState", t, extra)
      /\ UNCHANGED <<cfgVars, now, session, mounted, user, isLoading, vis, bodyClass,
                     timers, pend, so, fetchVars, toasts, soDone, shownAt, mountedAt>>

\* one tab of the purging AuthProvider whose pages call the tab utilities
InitPages ==
  /\ InitTabs
  /\ tabsOn = {1}
  /\ build = "purge"
  /\ envUrl = TrustedUrl
  /\ clockOn = FALSE
  /\ ls = Leftover

NextPages ==
  \E t \in tabsOn :
    \/ Mount(t)
    \/ VisibilityChange(t)
    \/ SignIn(t)
    \/ UpdateDone(t)
    \/ SaveTabStateCall(t)
    \/ preventNextTabSwitchRefresh(t)
    \/ FireClearPrevent(t)
    \/ PurgeStep(t)
    \/ FireReload(t)

SpecPages == InitPages /\ [][NextPages]_vars


-----------------------------------------------------------------------------
(* The tab identifier *)

\* tab t has an identifier (the value getTabId returns) and the step keeps it
KeepsTabId(t) ==
  Has(ss[t], TAB_ID_KEY) =>
    /\ Has(ss'[t], TAB_ID_KEY)
    /\ ss'[t][TAB_ID_KEY] = ss[t][TAB_ID_KEY]

\* the steps of signOut that sweep sessionStorage
SweepStep == last'.op \in {"signOut", "soPush"}

-----------------------------------------------------------------------------
(* saveTabState and restoreTabState *)

\* the fields of extra that carry a value
DefinedFields(extra) == {extra[i] : i \in {j \in DOMAIN extra : extra[j].def}}

\* restoreTabState() returns a record with every valued field of extra
HasExtra(rec, extra) ==
  \A f \in DefinedFields(extra) : f.key \in DOMAIN rec /\ rec[f.key] = f.val

\* the standard fields as saveTabState computes them in tab t
Standard(t) == [tabId |-> getTabId(ss[t], idSeq), lastActive |-> now, route |-> Route]

-----------------------------------------------------------------------------
(* Sharing between tabs *)

\* tab a is signed in: it holds an identity, the UserCacheRecord is that
\* identity and the collaborator's session blob carries a token
SignedInTab(a) ==
  /\ mounted[a]
  /\ user[a] # NoUser
  /\ session # NoSession
  /\ Has(ls, USER_CACHE_KEY) /\ ls[USER_CACHE_KEY] = user[a]
  /\ getAuthToken(ls) # NoToken

\* tab b is opened by this step
Opens(b) == ~mounted[b] /\ mounted'[b]

\* C14: a tab opened after another tab of the origin has signed in gets that
\* tab's token from getAuthToken() and its identity from the UserCacheRecord,
\* with no sign-in of its own
C14_OpenedTabSharesSignIn ==
  [][\A a, b \in tabsOn :
       (SignedInTab(a) /\ Opens(b)) =>
         /\ getAuthToken(ls') = getAuthToken(ls)
         /\ user'[b] = user[a]
         /\ session' = session
         /\ \A p \in pend'[b] : p.op # "update"]_vars

\* tab 2 has just been opened while tab 1 is signed in, and holds its identity
C14_Witness ==
  /\ last.op = "mount" /\ last.tab = 2
  /\ SignedInTab(1)
  /\ user[2] = user[1]
  /\ getAuthToken(ls) = "t1"


-----------------------------------------------------------------------------
(* Revalidation that finds a session *)

\* the step completes a quiet updateUserData (showLoading = false) of tab t,
\* the one checkSessionQuietly starts
QuietUpdateDone(t) ==
  /\ last'.op = "update" /\ last'.tab = t
  /\ \E p \in pend[t] \ pend'[t] : p.op = "update" /\ ~p.showLoading

-----------------------------------------------------------------------------
(* The session check after a return to the tab *)

\* timers that are due fire, and a reloading page loads
Fairness ==
  \A t \in Tabs :
    /\ WF_vars(t \in tabsOn /\ FireReval(t))
    /\ WF_vars(t \in tabsOn /\ Mount(t))

SpecLive == Spec /\ Fairness

\* checkSessionQuietly is called in tab t: by the 500 ms timer of the visible
\* branch, or by the first effect of the page that a reload loads
SessionCheckCalled(t) == last.tab = t /\ last.op \in {"fireReval", "mount"}

\* C16: every transition of a tab to visible is eventually followed by a call
\* of the remote session check, also when the tab is hidden and shown again or
\* the identity changes before the 500 ms timer fires
C16_VisibleLeadsToSessionCheck ==
  \A t \in Tabs : (last.op = "visible" /\ last.tab = t) ~> SessionCheckCalled(t)

\* the timer of a visible transition fired after signOut had cleared the
\* identity that its closure holds
C16_Witness ==
  /\ last.op = "fireReval"
  /\ user[last.tab] = NoUser
  /\ \E p \in pend[last.tab] : p.op = "getSession" /\ p.cu # NoUser


-----------------------------------------------------------------------------
(* Returning to the tab *)

\* the step is tab t becoming visible
Shown(t) == last'.op = "visible" /\ last'.tab = t

\* C17: when a tab becomes visible with a null identity and a parseable
\* UserCacheRecord, its identity becomes that record and isLoading is not
\* touched; an identity that is not null is kept as it is
C17_VisibleRestoresOnlyNullIdentity ==
  [][\A t \in tabsOn :
       Shown(t) =>
         /\ (/\ user[t] = NoUser
             /\ Has(ls, USER_CACHE_KEY) /\ Parses(ls[USER_CACHE_KEY]))
              => (user'[t] = ls[USER_CACHE_KEY] /\ isLoading' = isLoading)
         /\ user[t] # NoUser => user'[t] = user[t]]_vars

\* a tab was shown without an identity (the TabRecord it wrote says hasAuth =
\* false) and now holds the cached record
C17_Witness ==
  /\ last.op = "visible"
  /\ ~ls[TAB_STATE_KEY].hasAuth
  /\ user[last.tab] # NoUser
  /\ Has(ls, USER_CACHE_KEY) /\ ls[USER_CACHE_KEY] = user[last.tab]


-----------------------------------------------------------------------------
(* Leaving the tab *)

\* C18: whenever a tab has just been hidden, the TabRecord has been persisted
\* with hasAuth telling whether the tab holds an identity (true or false); the
\* other half of the claim, that hiding starts no revalidation, is not in doubt
\* (BecomeHidden leaves timers and pending calls alone)
C18_HiddenPersistsHasAuth ==
  last.op = "hidden" =>
    /\ Has(ls, TAB_STATE_KEY)
    /\ "hasAuth" \in DOMAIN ls[TAB_STATE_KEY]
    /\ ls[TAB_STATE_KEY].hasAuth = (user[last.tab] # NoUser)


-----------------------------------------------------------------------------
(* The loading state after the page loads *)

\* C19: a page that loaded more than 3 s ago no longer shows the loading
\* state, whether or not getSession has answered
C19_LoadingEndsWithinCeiling ==
  \A t \in tabsOn :
    (mounted[t] /\ now > mountedAt[t] + SafetyMs) => ~isLoading[t]

\* more than 3 s after the load the loading state is gone although the first
\* getSession call has not answered
C19_Witness ==
  \E t \in tabsOn :
    /\ mounted[t] /\ now > mountedAt[t] + SafetyMs
    /\ ~isLoading[t]
    /\ GetSession(NoUser) \in pend[t]


-----------------------------------------------------------------------------
(* Phases of signOut *)

\* the localStorage sweep (step 1) or the sessionStorage sweep (step 2) of
\* the signOut just called threw
SweepThrew == build = "purge" /\ last.op = "signOut" /\ last.arg[1] \in {"ls", "ss"}

\* C20: a sweep of signOut that throws does not end the pipeline: the cache
\* and IndexedDB cleanup, the remote sign-out attempts and the verification
\* are still to run
C20_LaterPhasesStillRun ==
  SweepThrew => (so[last.tab].pc = "caches" /\ ~soDone)


-----------------------------------------------------------------------------
(* The reload that ends signOut *)

\* C21: every call of signOut ends with the page reload being forced: when
\* signOut returns, through its normal path or through its catch block, the
\* timer that reloads the page at '/' has been set
C21_SignOutForcesReload ==
  SignOutReturned => ReloadPending(last.tab)


-----------------------------------------------------------------------------
(* The catch block of signOut *)

\* the step just taken made signOut return through its catch block
CatchRan ==
  /\ SignOutReturned
  /\ \/ build = "purge" /\ last.op \in {"signOut", "soPush"} /\ Len(last.arg) = 2
     \/ build = "lib" /\ last.op = "signOut" /\ last.arg = <<"ls">>
     \/ build = "lib" /\ last.op = "soRemote" /\ last.arg = "throw"
     \/ build = "lib" /\ last.op = "soPush" /\ last.arg = <<"reject">>

\* how far the storage calls of the purging catch block got
SweepOutcome == IF build = "purge" THEN last.arg[2] ELSE "none"

\* C22: when signOut returns through its catch block, the identity is null,
\* no key of the minimal pattern is left in localStorage, both stores are
\* empty if the sweep threw (unless clear() threw as well), and the reload has
\* been forced
C22_EmergencyPathCompletes ==
  CatchRan =>
    /\ user[last.tab] = NoUser
    /\ SweepOutcome # "clear" => \A k \in DOMAIN ls : ~EmergencyPattern(k)
    /\ SweepOutcome = "sweep" => (ls = EmptyStore /\ ss[last.tab] = EmptyStore)
    /\ ReloadPending(last.tab)


-----------------------------------------------------------------------------
(* What signOut tells the user *)

\* C23: when signOut returns, on whichever path, the notifications it has
\* shown are a success notification and nothing else
C23_OnlySuccessNotification ==
  SignOutReturned => toasts[last.tab] = {"success"}


-----------------------------------------------------------------------------
(* signOut called again *)

\* a signOut has completed in tab t and left the signed-out state: no identity,
\* no remote session, nothing in either store that its sweeps remove
Purged(t) ==
  /\ soDone
  /\ user[t] = NoUser
  /\ session = NoSession
  /\ ls = Step1(ls)
  /\ ss[t] = Step2(ss[t])

\* the step belongs to a call of signOut in tab t
SignOutStep(t) ==
  /\ last'.tab = t
  /\ last'.op \in {"signOut", "soCaches", "soRemote", "soVerify", "soCorrective", "soPush"}

\* a storage call threw in the step and the catch block cleared the stores
StoresCleared ==
  /\ last'.op \in {"signOut", "soPush"}
  /\ Len(last'.arg) = 2
  /\ last'.arg[2] = "sweep"

\* C24: signOut is idempotent: called again in the signed-out state that a
\* completed signOut left, every step of it leaves localStorage, the tab's
\* sessionStorage, the identity and the remote session as they are, and it
\* shows no error
C24_SignOutIdempotent ==
  [][\A t \in tabsOn :
       (Purged(t) /\ SignOutStep(t) /\ ~StoresCleared) =>
         /\ ls' = ls
         /\ ss'[t] = ss[t]
         /\ user'[t] = NoUser
         /\ session' = NoSession
         /\ "error" \notin toasts'[t]]_vars

\* a second signOut has reached its verification with the first one's
\* signed-out state intact
C24_Witness ==
  \E t \in tabsOn :
    /\ Purged(t)
    /\ so[t].pc = "verify"
    /\ Has(ls, THEME_KEY)


-----------------------------------------------------------------------------
(* The order of the first statements of signOut *)

\* the states the head of signOut goes through when called in tab t
SignOutHead(t) ==
  IF build = "purge" THEN PurgeHead(ls, ss[t], user[t])
  ELSE LibHead(ls, ss[t], user[t])

\* C25: signOut clears the identity first: at every point of a call where a
\* key has been removed from localStorage or sessionStorage, the identity is
\* already null (the remote calls come after the head)
C25_IdentityClearedFirst ==
  [][\A t \in tabsOn :
       (last'.op = "signOut" /\ last'.tab = t) =>
         \A i \in DOMAIN SignOutHead(t) :
           (SignOutHead(t)[i].ls # ls \/ SignOutHead(t)[i].ss # ss[t]) =>
             SignOutHead(t)[i].user = NoUser]_vars


-----------------------------------------------------------------------------
(* Stored data that does not parse *)

\* what the three keys may hold when the page loads: nothing, text that does
\* not parse, or a well-formed value
GoodTabRecord == [tabId |-> OtherTabId, lastActive |-> 0, route |-> Route]
GoodUser == [id |-> "u1", role |-> "user"]
Absent == [absent |-> TRUE]
Put(l, k, v) == IF v = Absent THEN l ELSE SetItem(l, k, v)

InitCorrupt ==
  /\ InitTabs
  /\ tabsOn = {1}
  /\ build = "purge"
  /\ envUrl = TrustedUrl
  /\ clockOn = FALSE
  /\ \E tr \in {Absent, CorruptRecord, GoodTabRecord} :
       \E uc \in {Absent, Corrupt, GoodUser} :
         \E b \in Blobs :
           ls = Put(Put(IF b = NoToken THEN Leftover
                        ELSE SetItem(Leftover, AUTH_TOKEN_KEY, b),
                        TAB_STATE_KEY, tr),
                    USER_CACHE_KEY, uc)

\* a page calls restoreTabState() or getAuthToken(); last.arg is what it gets
RestoreTabStateCall(t) ==
  /\ mounted[t]
  /\ last' = Op("restoreTabState", t, restoreTabState(ls))
  /\ UNCHANGED <<cfgVars, now, ls, session, mounted, user, isLoading, vis, ss,
                 bodyClass, timers, pend, so, fetchVars, toasts, soDone, evts,
                 idSeq, shownAt, mountedAt>>

GetAuthTokenCall(t) ==
  /\ mounted[t]
  /\ last' = Op("getAuthToken", t, getAuthToken(ls))
  /\ UNCHANGED <<cfgVars, now, ls, session, mounted, user, isLoading, vis, ss,
                 bodyClass, timers, pend, so, fetchVars, toasts, soDone, evts,
                 idSeq, shownAt, mountedAt>>

NextCorrupt ==
  \E t \in tabsOn :
    \/ Mount(t)
    \/ VisibilityChange(t)
    \/ SaveTabStateCall(t)
    \/ RestoreTabStateCall(t)
    \/ GetAuthTokenCall(t)

SpecCorrupt == InitCorrupt /\ [][NextCorrupt]_vars


\* the stored value under key k is missing or does not parse
Unreadable(k, bad) == ~Has(ls, k) \/ ls[k] \in bad

\* C26: data that does not parse is a cache miss: restoreTabState() returns
\* null for a missing or unparseable TabRecord, getAuthToken() returns null for
\* a missing or unparseable blob or one without access_token, an unparseable
\* UserCacheRecord leaves the identity null, and no error reaches the caller
C26_CorruptDataIsAMiss ==
  /\ last.op = "restoreTabState" =>
       /\ last.arg # Thrown
       /\ Unreadable(TAB_STATE_KEY, {CorruptRecord}) => last.arg = NoRecord
  /\ last.op = "getAuthToken" =>
       (Unreadable(AUTH_TOKEN_KEY, {"corrupt", "empty"}) => last.arg = NoToken)
  /\ \A t \in tabsOn :
       (mounted[t] /\ Has(ls, USER_CACHE_KEY) /\ ~Parses(ls[USER_CACHE_KEY]))
         => user[t] = NoUser

\* with all three keys holding text that does not parse, the page has loaded
\* without an identity and restoreTabState() has returned null
C26_Witness ==
  /\ last.op = "restoreTabState"
  /\ last.arg = NoRecord
  /\ Has(ls, TAB_STATE_KEY) /\ ls[TAB_STATE_KEY] = CorruptRecord
  /\ Has(ls, USER_CACHE_KEY) /\ ls[USER_CACHE_KEY] = Corrupt
  /\ Has(ls, AUTH_TOKEN_KEY) /\ ls[AUTH_TOKEN_KEY] = "corrupt"
  /\ user[last.tab] = NoUser


-----------------------------------------------------------------------------
(* Stores that throw *)

\* a call of a tab utility during which every access to one store throws
\* (sessionStorage or localStorage: quota, denied access): whether the
\* exception reaches the caller, and the stores afterwards
Faults == {"ss", "ls"}
Outcome(threw, l, s) == [threw |-> threw, ls |-> l, ss |-> s]

\* getTabId has no try block
getTabIdFaulty(l, s, r, fault) ==
  IF fault = "ss" THEN Outcome(TRUE, l, s) ELSE Outcome(FALSE, l, GetTabIdStore(s, r))

\* getAuthToken reads inside try and returns null from the catch
getAuthTokenFaulty(l, s, r, fault) == Outcome(FALSE, l, s)

\* saveTabState calls getTabId, getAuthToken and setItem inside one try
saveTabStateFaulty(l, s, r, fault) ==
  IF fault = "ss" THEN Outcome(FALSE, l, s) ELSE Outcome(FALSE, l, GetTabIdStore(s, r))

\* preventNextTabSwitchRefresh sets the sessionStorage flag before its try block
preventFaulty(l, s, r, fault) ==
  IF fault = "ss" THEN Outcome(TRUE, l, s)
  ELSE Outcome(FALSE, l, GetTabIdStore(SetItem(s, PREVENT_REFRESH, now), r))

Utilities == {"getTabId", "getAuthToken", "saveTabState", "preventNextTabSwitchRefresh"}

Faulty(fn, l, s, r, fault) ==
  CASE fn = "getTabId" -> getTabIdFaulty(l, s, r, fault)
    [] fn = "getAuthToken" -> getAuthTokenFaulty(l, s, r, fault)
    [] fn = "saveTabState" -> saveTabStateFaulty(l, s, r, fault)
    [] OTHER -> preventFaulty(l, s, r, fault)

\* a page calls a utility while a store throws
FaultyCall(t) ==
  \E fn \in Utilities : \E fault \in Faults :
    LET out == Faulty(fn, ls, ss[t], idSeq, fault) IN
      /\ mounted[t]
      /\ evts < EventBound
      /\ evts' = evts + 1
      /\ ls' = out.ls
      /\ ss' = Set(ss, t, out.ss)
      /\ idSeq' = IF Has(out.ss, TAB_ID_KEY) THEN NextSeq(ss[t]) ELSE idSeq
      /\ timers' = Set(timers, t,
           IF fn = "preventNextTabSwitchRefresh" /\ ~out.threw
           THEN timers[t] \cup {Timer("clearPrevent", PreventClearMs, NoUser)}
           ELSE timers[t])
      /\ last' = Op("storageFault", t, [fn |-> fn, fault |-> fault, threw |-> out.threw])
      /\ UNCHANGED <<cfgVars, now, session, mounted, user, isLoading, vis, bodyClass,
                     pend, so, fetchVars, toasts, soDone, shownAt, mountedAt>>

NextFaults ==
  \E t \in tabsOn :
    \/ Mount(t)
    \/ VisibilityChange(t)
    \/ SaveTabStateCall(t)
    \/ preventNextTabSwitchRefresh(t)
    \/ FireClearPrevent(t)
    \/ FaultyCall(t)

SpecFaults == InitPages /\ [][NextFaults]_vars

\* C27: a store that throws never makes a tab utility throw: saveTabState,
\* preventNextTabSwitchRefresh, getTabId and getAuthToken return normally and
\* the store that threw is as it was
C27_StorageErrorsSwallowed ==
  [][last'.op = "storageFault" =>
       /\ ~last'.arg.threw
       /\ last'.arg.fault = "ls" => ls' = ls
       /\ last'.arg.fault = "ss" => ss' = ss]_vars

-----------------------------------------------------------------------------
(* The suppression flags and authentication *)

\* one tab whose pages sign in, switch tabs, set the suppression flag, install
\* the switch interceptor and are revalidated
NextFlags ==
  \E t \in tabsOn :
    \/ Mount(t)
    \/ VisibilityChange(t)
    \/ SignIn(t)
    \/ UpdateDone(t)
    \/ preventNextTabSwitchRefresh(t)
    \/ applySwitchPreventionToFetch(t)
    \/ FireReval(t)
    \/ GetSessionReturn(t)
    \/ FireClearReturning(t)
    \/ FireClearPrevent(t)

SpecFlags == InitPages /\ [][NextFlags]_vars

\* the values the two sessionStorage flags and the body marker classes can have
FlagSettings ==
  [returning : BOOLEAN, prevent : BOOLEAN,
   body : SUBSET {TAB_ACTIVE_CLASS, "dashboard-tab-active"}]

\* page p with its suppression flags and marker classes replaced by setting f
WithFlags(p, f) ==
  LET s0 == RemoveAll(p.ss, {RETURNING_FLAG, PREVENT_REFRESH})
      s1 == IF f.returning THEN SetItem(s0, RETURNING_FLAG, "true") ELSE s0
      s2 == IF f.prevent THEN SetItem(s1, PREVENT_REFRESH, now) ELSE s1
  IN [p EXCEPT !.ss = s2,
               !.body = (p.body \ {TAB_ACTIVE_CLASS, "dashboard-tab-active"}) \cup f.body]

\* requests a page makes without credentials of its own
PlainRequests ==
  {[input |-> Href(u), hasInit |-> TRUE, headers |-> Plain(<<>>)] :
     u \in {x \in Targets : x.host = OriginHost /\ x.tail = <<"/", "x">>}}

\* C28: the suppression flags and the 'just activated' marker are never
\* authoritative for authentication: on two pages that differ only in them,
\* the session check leaves the same identity and the same UserCacheRecord, a
\* tab shown again restores the same identity, and a request gets the same
\* Authorization header
C28_FlagsNotAuthoritative ==
  \A t \in tabsOn : \A f \in FlagSettings :
    LET p == Page(t)
        q == WithFlags(p, f)
    IN /\ \A cu \in {NoUser, user[t]} \cup {x.cu : x \in {y \in pend[t] : y.op = "getSession"}} :
            \A outcome \in {"error", "throw", "session", "none"} :
              QuietCheckResult(q, cu, outcome) = QuietCheckResult(p, cu, outcome)
       /\ VisibleRestore(q) = VisibleRestore(p)
       /\ \A args \in PlainRequests :
            Intercepted(q, fetchChain[t], args) = Intercepted(p, fetchChain[t], args)

\* a session check has cleared the identity of a tab that was shown with an
\* identity, while the suppression flag was set
C28_Witness ==
  /\ last.op = "getSession"
  /\ last.arg = "error"
  /\ Returning(Page(last.tab))
  /\ getAuthToken(ls) # NoToken
  /\ Has(ls, TAB_STATE_KEY)
  /\ "userEmail" \in DOMAIN ls[TAB_STATE_KEY]
  /\ user[last.tab] = NoUser
  /\ ~Has(ls, USER_CACHE_KEY)

-----------------------------------------------------------------------------
(* What the TabRecord holds of the credential *)

\* C29: the TabRecord written by saveTabState tells at most whether a cached
\* token is present; the value of the bearer token is never copied into it
C29_TokenValueNotInTabRecord ==
  (Has(ls, TAB_STATE_KEY) /\ "authToken" \in DOMAIN ls[TAB_STATE_KEY]) =>
    ls[TAB_STATE_KEY].authToken \notin Tokens

-----------------------------------------------------------------------------
(* Two tabs writing the one TabRecord *)

\* the pages of two tabs call the tab utilities in any order
NextShared ==
  \E t \in tabsOn :
    \/ Mount(t)
    \/ SaveTabStateCall(t)
    \/ preventNextTabSwitchRefresh(t)
    \/ FireClearPrevent(t)
    \/ RestoreTabStateCall(t)

SpecShared == InitTabsSpec /\ [][NextShared]_vars

\* the record now under TAB_STATE_KEY, or null
StoredRecord(l) == IF Has(l, TAB_STATE_KEY) THEN l[TAB_STATE_KEY] ELSE NoRecord

\* C30: writes of several tabs to the one TabRecord key are last-write-wins:
\* after a saveTabState or preventNextTabSwitchRefresh call the stored record
\* is exactly the record of that call, with no field of an earlier record; no
\* other step changes it; restoreTabState() in any tab returns it
C30_LastWriteWins ==
  [][ /\ last'.op = "saveTabState" =>
           ls'[TAB_STATE_KEY] = Stringify(last'.arg)
                                  @@ (Standard(last'.tab) @@ [authToken |-> getAuthToken(ls)])
      /\ last'.op = "prevent" => ls'[TAB_STATE_KEY] = Standard(last'.tab)
      /\ last'.op = "restoreTabState" => last'.arg = StoredRecord(ls)
      /\ last'.op \notin {"saveTabState", "prevent"} => StoredRecord(ls') = StoredRecord(ls)
    ]_vars

\* restoreTabState() in a tab that has an id of its own returned the record of
\* the other tab
C30_Witness ==
  /\ last.op = "restoreTabState"
  /\ last.arg # NoRecord
  /\ Has(ss[last.tab], TAB_ID_KEY)
  /\ \E b \in tabsOn \ {last.tab} :
       /\ Has(ss[b], TAB_ID_KEY)
       /\ last.arg.tabId = ss[b][TAB_ID_KEY]
       /\ last.arg.tabId # ss[last.tab][TAB_ID_KEY]

-----------------------------------------------------------------------------
(* AuthProvider torn down while a revalidation is under way *)

\* AuthProvider unmounts without a page load: the effect cleanups clear the
\* safety timer, remove the visibility listener and unsubscribe from the auth
\* events; the tabSwitchDelay timers and the promises in flight stay
Unmount(t) ==
  /\ mounted[t]
  /\ so[t] = Idle
  /\ evts < EventBound
  /\ evts' = evts + 1
  /\ mounted' = Set(mounted, t, FALSE)
  /\ user' = Set(user, t, NoUser)
  /\ isLoading' = Set(isLoading, t, TRUE)
  /\ timers' = Set(timers, t, {tm \in timers[t] : tm.kind # "safety"})
  /\ pend' = Set(pend, t, pend[t] \ {SignedOutEvent})
  /\ mountedAt' = Set(mountedAt, t, -1)
  /\ last' = Op("unmount", t, "")
  /\ UNCHANGED <<cfgVars, now, ls, session, vis, ss, bodyClass, so, fetchVars,
                 toasts, soDone, idSeq, shownAt>>

\* one tab whose AuthProvider may be unmounted between a visible transition and
\* the end of the revalidation it scheduled
NextTeardown ==
  \E t \in tabsOn :
    \/ Mount(t)
    \/ VisibilityChange(t)
    \/ SignIn(t)
    \/ UpdateDone(t)
    \/ FireReval(t)
    \/ GetSessionReturn(t)
    \/ Unmount(t)

SpecTeardown == InitPages /\ [][NextTeardown]_vars

\* the UserCacheRecord now stored, or null
CacheRecord(l) == IF Has(l, USER_CACHE_KEY) THEN l[USER_CACHE_KEY] ELSE NoUser

\* a step of a revalidation: its timer fires, getSession answers, or the
\* updateUserData it started without the loading state ends
LateRevalidationStep ==
  \/ last'.op \in {"fireReval", "getSession"}
  \/ /\ last'.op = "update"
     /\ Update(last'.arg, FALSE) \in pend[last'.tab] \ pend'[last'.tab]

\* C31: a revalidation whose timer fires or whose response arrives after
\* AuthProvider was torn down changes neither the identity in memory nor the
\* UserCacheRecord
C31_LateRevalidationIsNoOp ==
  [][ (LateRevalidationStep /\ ~mounted[last'.tab] /\ shownAt[last'.tab] >= 0) =>
        /\ user'[last'.tab] = user[last'.tab]
        /\ CacheRecord(ls') = CacheRecord(ls)
    ]_vars

-----------------------------------------------------------------------------
(* refreshUser and checkUserRole *)

\* supabase.auth.getUser() awaited by refreshUser; caller is who awaits
\* refreshUser: a page, or checkUserRole
GetUser(caller) ==
  [op |-> "getUser", cu |-> NoUser, who |-> "null", showLoading |-> TRUE, caller |-> caller]
\* updateUserData(authUser) awaited by refreshUser
RefreshUpdate(u, caller) ==
  [op |-> "refreshUpdate", cu |-> NoUser, who |-> u, showLoading |-> TRUE, caller |-> caller]

\* what checkUserRole returns after refreshUser: the role of the user of its
\* closure, which was null when it decided to refresh, else the default
RoleAfterRefresh(cu) == IF cu # NoUser THEN cu.role ELSE "user"

\* what the awaiting caller gets: nothing for a page, the role for checkUserRole
Returned(caller, resolved) ==
  [caller |-> caller, resolved |-> resolved,
   role |-> IF caller = "checkUserRole" THEN RoleAfterRefresh(NoUser) ELSE "void"]

\* refreshUser up to the await of getUser
RefreshStart(t, caller) ==
  /\ mounted[t]
  /\ evts < EventBound
  /\ evts' = evts + 1
  /\ isLoading' = Set(isLoading, t, TRUE)
  /\ pend' = Set(pend, t, pend[t] \cup {GetUser(caller)})
  /\ UNCHANGED <<cfgVars, now, ls, session, mounted, user, vis, ss, bodyClass, timers,
                 so, fetchVars, toasts, soDone, idSeq, shownAt, mountedAt>>

\* a page calls refreshUser()
RefreshUserCall(t) ==
  /\ RefreshStart(t, "page")
  /\ last' = Op("refreshUser", t, "")

\* a page calls checkUserRole(): the role in memory, or a refresh first
CheckUserRoleCall(t) ==
  IF user[t] # NoUser
  THEN /\ mounted[t]
       /\ last' = Op("checkUserRole", t, user[t].role)
       /\ UNCHANGED <<cfgVars, now, ls, session, mounted, user, isLoading, vis, ss,
                      bodyClass, timers, pend, so, fetchVars, toasts, soDone, evts,
                      idSeq, shownAt, mountedAt>>
  ELSE /\ RefreshStart(t, "checkUserRole")
       /\ last' = Op("checkUserRole", t, "refresh")

\* what getUser can answer
UserOutcomes == {"error", "throw"} \cup (IF session = NoSession THEN {"none"} ELSE {"user"})

\* variant: the cache entry is removed whenever no user was obtained
GetUserReturnAlwaysClears(t) ==
  \E p \in pend[t] : \E outcome \in UserOutcomes :
    /\ p.op = "getUser"
    /\ IF outcome = "user"
       THEN /\ pend' = Set(pend, t, (pend[t] \ {p}) \cup {RefreshUpdate(session, p.caller)})
            /\ last' = Op("getUser", t, outcome)
            /\ UNCHANGED <<user, ls, isLoading>>
       ELSE /\ user' = SetState(user, t, NoUser)
            /\ ls' = RemoveItem(ls, USER_CACHE_KEY)
            /\ isLoading' = SetState(isLoading, t, FALSE)
            /\ pend' = Set(pend, t, pend[t] \ {p})
            /\ last' = Op("refreshed", t, [Returned(p.caller, "null") EXCEPT !.resolved = outcome])
    /\ UNCHANGED <<cfgVars, now, session, mounted, vis, ss, bodyClass, timers, so,
                   fetchVars, toasts, soDone, evts, idSeq, shownAt, mountedAt>>

\* refreshUser after getUser has settled
GetUserReturn(t) ==
  \E p \in pend[t] : \E outcome \in UserOutcomes :
    /\ p.op = "getUser"
    /\ IF outcome = "user"
       THEN /\ pend' = Set(pend, t, (pend[t] \ {p}) \cup {RefreshUpdate(session, p.caller)})
            /\ last' = Op("getUser", t, outcome)
            /\ UNCHANGED <<user, ls, isLoading>>
       ELSE /\ user' = SetState(user, t, NoUser)
            /\ ls' = IF outcome = "none" THEN RemoveItem(ls, USER_CACHE_KEY) ELSE ls
            /\ isLoading' = SetState(isLoading, t, FALSE)
            /\ pend' = Set(pend, t, pend[t] \ {p})
            /\ last' = Op("refreshed", t, [Returned(p.caller, "null") EXCEPT !.resolved = outcome])
    /\ UNCHANGED <<cfgVars, now, session, mounted, vis, ss, bodyClass, timers, so,
                   fetchVars, toasts, soDone, evts, idSeq, shownAt, mountedAt>>

\* the updateUserData awaited by refreshUser ends, then refreshUser's finally
RefreshUpdateDone(t) ==
  \E p \in pend[t] : \E role \in Roles :
    /\ p.op = "refreshUpdate"
    /\ UpdateUserData(t, p, role)
    /\ last' = Op("refreshed", t, Returned(p.caller, role))
    /\ UNCHANGED <<cfgVars, now, session, mounted, vis, ss, bodyClass, timers, so,
                   fetchVars, toasts, soDone, evts, idSeq, shownAt, mountedAt>>

\* one tab whose pages refresh the user and ask for the role
NextRefresh ==
  \E t \in tabsOn :
    \/ Mount(t)
    \/ SignIn(t)
    \/ UpdateDone(t)
    \/ GetSessionReturn(t)
    \/ FireSafety(t)
    \/ RefreshUserCall(t)
    \/ CheckUserRoleCall(t)
    \/ GetUserReturn(t)
    \/ RefreshUpdateDone(t)
    \/ SessionEnds

SpecRefresh == InitPages /\ [][NextRefresh]_vars

\* the timers of the page fire when due; nothing makes a remote call answer
TimersFire == \A t \in Tabs : WF_vars(t \in tabsOn /\ (Mount(t) \/ FireSafety(t)))

SpecRefreshLive == SpecRefresh /\ TimersFire

\* C32: the loading state never stays shown for ever waiting on the remote
\* collaborator: whenever isLoading is true in a mounted tab it is false again
\* later, even if no remote call ever completes
C32_LoadingNeverHangs ==
  \A t \in Tabs : (mounted[t] /\ isLoading[t]) ~> ~isLoading[t]

-----------------------------------------------------------------------------
(* signOut: the final re-check and the remote attempts *)

\* the step that ran STEP 8 of signOut
Step8Ran ==
  \/ last.op = "soCorrective"
  \/ last.op = "soVerify" /\ last.arg # "session"

\* C33: after step 8 of signOut none of the known application keys of the first
\* removal (user cache, session blob, tab record, bypass flag) is in
\* localStorage, even if one was written again while the remote steps waited
C33_KnownKeysGoneAfterStep8 ==
  Step8Ran => \A k \in ourSpecificKeys : ~Has(ls, k)

\* the sign-out step tab t takes
SoStep(t, op) == last'.op = op /\ last'.tab = t

\* C34: the remote sign-out is attempted with the global, the local and the
\* default scope in turn whatever the result of each attempt; then the session
\* is queried once, and one corrective sign-out follows exactly when the query
\* reports a session, after which no further attempt or query is made
C34_AllAttemptsThenOneQuery ==
  [][ \A t \in tabsOn :
        /\ SoStep(t, "soCaches") => so'[t].pc = "global"
        /\ SoStep(t, "soRemote") =>
             \/ so[t].pc = "global" /\ so'[t].pc = "local"
             \/ so[t].pc = "local" /\ so'[t].pc = "default"
             \/ so[t].pc = "default" /\ so'[t].pc = "verify"
        /\ SoStep(t, "soVerify") =>
             /\ so[t].pc = "verify"
             /\ (so'[t].pc = "corrective") <=> (last'.arg = "session")
             /\ so'[t].pc \in {"corrective", "push", "idle"}
        /\ SoStep(t, "soCorrective") =>
             /\ so[t].pc = "corrective"
             /\ so'[t].pc \in {"push", "idle"}
    ]_vars

\* the three attempts have failed, the query has found the session and the
\* corrective sign-out is about to be issued
C34_Witness ==
  /\ last.op = "soVerify"
  /\ last.arg = "session"
  /\ so[last.tab].pc = "corrective"
  /\ session # NoSession

-----------------------------------------------------------------------------
(* After the SIGNED_OUT event *)

\* the SIGNED_OUT handler of tab t runs in this step: the event of another
\* tab's sign-out arrives, or a sign-out call of tab t itself succeeds
SignedOutDelivered(t) ==
  /\ last'.tab = t
  /\ \/ last'.op = "SIGNED_OUT"
     \/ last'.op \in {"soRemote", "soCorrective"} /\ last'.arg = "ok"

\* tab t has no identity in memory and there is no UserCacheRecord
SignedOutState(t) == user[t] = NoUser /\ ~Has(ls, USER_CACHE_KEY)

\* C35: after the SIGNED_OUT event the identity in memory is null and the
\* UserCacheRecord is absent, and no later step restores either, a visibility
\* transition included, except the end of an updateUserData (which a SIGNED_IN
\* event or a session check that found a session starts)
C35_SignedOutStays ==
  [][ \A t \in tabsOn :
        /\ SignedOutDelivered(t) => (user'[t] = NoUser /\ ~Has(ls', USER_CACHE_KEY))
        /\ (SignedOutState(t) /\ last'.op # "update") =>
             (user'[t] = NoUser /\ ~Has(ls', USER_CACHE_KEY))
    ]_vars

\* the tab is shown again after a sign-out whose remote call succeeded (the
\* only way to the success toast in this build), and is still signed out
C35_Witness ==
  /\ last.op = "visible"
  /\ build = "lib"
  /\ "success" \in toasts[last.tab]
  /\ session = NoSession
  /\ mounted[last.tab]
  /\ SignedOutState(last.tab)

\* C36: when signOut has started while the updateUserData of a session check
\* was still resolving the user, the end of that updateUserData neither writes
\* the UserCacheRecord again nor sets the identity in memory
C36_LateUpdateAfterSignOut ==
  [][ \A t \in tabsOn :
        ( /\ build = "purge"
          /\ last'.op = "update" /\ last'.tab = t
          /\ Update(last'.arg, FALSE) \in pend[t] \ pend'[t]
          /\ (so[t] # Idle \/ soDone) ) =>
        (user'[t] = NoUser /\ ~Has(ls', USER_CACHE_KEY))
    ]_vars

-----------------------------------------------------------------------------
(* refreshUser: what a failed refresh leaves *)

\* refreshUser of tab t ended in this step without a user; how is "error",
\* "throw" or "none"
RefreshEnded(t, how) ==
  /\ last'.op = "refreshed"
  /\ last'.tab = t
  /\ last'.arg.resolved = how

\* C37: when getUser returns an error or throws, refreshUser sets the identity
\* to null and leaves every localStorage key as it was; it removes the
\* UserCacheRecord, and nothing else, only when getUser reports no user
C37_RefreshFailureKeepsCache ==
  [][ \A t \in tabsOn :
        /\ (RefreshEnded(t, "error") \/ RefreshEnded(t, "throw")) =>
             (user'[t] = NoUser /\ ls' = ls)
        /\ RefreshEnded(t, "none") =>
             (user'[t] = NoUser /\ ls' = RemoveItem(ls, USER_CACHE_KEY))
        /\ (last'.op \in {"refreshUser", "checkUserRole", "getUser", "refreshed"}
              /\ Has(ls, USER_CACHE_KEY) /\ ~Has(ls', USER_CACHE_KEY)) =>
             RefreshEnded(last'.tab, "none")
    ]_vars

\* a refresh has failed with an error in a tab whose user was cached: the
\* identity is null and the cache entry is still there
C37_Witness ==
  /\ last.op = "refreshed"
  /\ last.arg.resolved = "error"
  /\ user[last.tab] = NoUser
  /\ Has(ls, USER_CACHE_KEY)

-----------------------------------------------------------------------------
(* checkUserRole *)

\* C40: checkUserRole(), called with no identity in memory, refreshes the user
\* and returns the role of the identity the refresh resolved; it returns the
\* default 'user' only when the refresh resolved no identity
C40_RoleOfRefreshedUser ==
  (last.op = "refreshed" /\ last.arg.caller = "checkUserRole") =>
    last.arg.role = (IF last.arg.resolved \in Roles THEN last.arg.resolved ELSE "user")

-----------------------------------------------------------------------------
(* preventNextTabSwitchRefresh called again within its window *)

\* a preventNextTabSwitchRefresh() call of tab t is less than 5 s old: its
\* timer is not due yet
PreventCallFresh(t) ==
  \E tm \in timers[t] : tm.kind = "clearPrevent" /\ tm.due > now

\* C38: the prevent_auto_refresh flag stays set until 5 s after the latest
\* preventNextTabSwitchRefresh() call: the timer of an earlier call does not
\* remove the flag a later call has set
C38_EarlierTimerKeepsLaterFlag ==
  \A t \in tabsOn : PreventCallFresh(t) => Has(ss[t], PREVENT_REFRESH)

-----------------------------------------------------------------------------
(* Every request reaches the original fetch once *)

\* C39: whatever interceptors are installed, in whatever number and order, a
\* call of window.fetch makes exactly one call of the original fetch, for the
\* same request target: none is blocked, dropped, faked or duplicated
C39_OneCallSameTarget ==
  last.op = "fetch" =>
    /\ fetchOut.calls = 1
    /\ fetchOut.got.input = Href(fetchOut.target)

\* a request without init went through the wrapper of the page load and the
\* switch wrapper installed around it
C39_Witness ==
  /\ last.op = "fetch"
  /\ ~fetchOut.sent.hasInit
  /\ Len(fetchChain[last.tab]) = MaxLayers
  /\ \E i \in DOMAIN fetchChain[last.tab] : fetchChain[last.tab][i] = "switch"
  /\ fetchOut.calls = 1

====
